---- MODULE Spec2Model ----
(***************************************************************************)
(* Model of the Hexadecimal Serial Protocol of cpp-libs-mm-arduino:        *)
(* the value codec (putValue / getValue / putString / getString), the      *)
(* frame layer, the initiator (dispatchXXX) and responder (processXXX) of   *)
(* include/HexProtocol.h, the two transports (common/DeviceHexProtocol.h   *)
(* on the host, include/Arduino/StreamHexProtocol.h on the AVR), and the   *)
(* stream lock used by common/RemoteProp.h.                                *)
(*                                                                         *)
(* Bytes are integers 0..255 and every wire is a sequence of bytes.  A     *)
(* 32-bit machine word is a record [hi, lo] of two 16-bit halves, so that  *)
(* 0xffffffff and -0x80000000 are represented exactly and all arithmetic   *)
(* on words is arithmetic modulo 2^32.                                     *)
(***************************************************************************)
EXTENDS Integers, Sequences, FiniteSets, TLC

VARIABLES
    codec,      \* the value under test of the codec specification
    started,    \* started_ of the protocol object at each end
    h2s,        \* bytes in flight from the host to the AVR
    s2h,        \* bytes in flight from the AVR to the host
    host,       \* the initiator: the dispatch operation in progress
    dev,        \* the responder: its handlers and what it last did
    thr,        \* the host threads: the call each is in and what is left of it
    lock        \* lock_ of the protocol object: its owner and hold count

\* ------------------------------------------------------------------------
\* Wire constants
\* ------------------------------------------------------------------------

PROT_TERM_CHAR == 4
PROT_ERROR == 21
PROT_RADIX == 16
PROT_HEX_BUFF_SIZE == 10
SUBCMD_ARRAY_SIZE == 1
SUBCMD_ARRAY_STARTING == 2
SUBCMD_ARRAY_ELEMENT == 3
SUBCMD_ARRAY_FINISHED == 4
ASCII_NULL == 0
ASCII_MINUS == 45

\* A cell of a character buffer that was never written.
Garbage == 0 - 1

\* ------------------------------------------------------------------------
\* Bounds of the model
\* ------------------------------------------------------------------------

\* the integers 0..MaxSmall and their negatives are among the sampled values
MaxSmall == 17
\* longest string sent
MaxStrLen == 3

\* ------------------------------------------------------------------------
\* 32-bit words
\* ------------------------------------------------------------------------

Half == 256 * 256

W(h, l) == [hi |-> h, lo |-> l]

\* the word of a natural number below 2^31
FromNat(n) == W(n \div Half, n % Half)

WNot(w) == W(Half - 1 - w.hi, Half - 1 - w.lo)

WAdd1(w) ==
    IF w.lo < Half - 1 THEN W(w.hi, w.lo + 1)
    ELSE W((w.hi + 1) % Half, 0)

\* two's complement negation, the result of -x on a 32-bit register
WNeg(w) == WAdd1(WNot(w))

\* x < 0 for a word read as prot_long_t
WIsNeg(w) == w.hi >= 32768

\* the word of an integer of -(2^31 - 1) .. 2^31 - 1
FromInt(i) == IF i >= 0 THEN FromNat(i) ELSE WNeg(FromNat(0 - i))

WDiv16(w) == W(w.hi \div 16, (w.hi % 16) * 4096 + (w.lo \div 16))

WMod16(w) == w.lo % 16

\* The protocol's value types: signedness, width in bits, floating point.
IntType(s, b) == [signed |-> s, bits |-> b, fp |-> FALSE]

T_cmd == IntType(FALSE, 8)      \* prot_cmd_t, prot_byte_t
T_chan == IntType(TRUE, 8)      \* prot_chan_t
T_size == IntType(FALSE, 16)    \* prot_size_t
T_long == IntType(TRUE, 32)     \* prot_long_t
T_ulong == IntType(FALSE, 32)   \* prot_ulong_t
T_float == [signed |-> TRUE, bits |-> 32, fp |-> TRUE]   \* prot_float_t
T_int == IntType(TRUE, 16)      \* int on the AVR

\* static_cast<T>(w): keep the low bits, then sign- or zero-extend
Cast(T, w) ==
    IF T.bits = 32 THEN w
    ELSE IF T.bits = 16
    THEN W(IF T.signed /\ w.lo >= 32768 THEN Half - 1 ELSE 0, w.lo)
    ELSE LET b == w.lo % 256
         IN  IF T.signed /\ b >= 128 THEN W(Half - 1, 65280 + b) ELSE W(0, b)

\* IS_SIGNED(TYPE)
IS_SIGNED(T) == T.signed

\* ------------------------------------------------------------------------
\* Number to text: _ultoa / ultoa with radix 16
\* ------------------------------------------------------------------------

HexDigitUpper(d) == IF d < 10 THEN 48 + d ELSE 55 + d

\* the character of one hexadecimal digit, lowercase
HexDigit(d) == IF d < 10 THEN 48 + d ELSE 87 + d

RECURSIVE prot_ultohexstr(_)
\* digits are produced least significant first by repeated division and
\* stored most significant first; zero is the single digit "0"
prot_ultohexstr(w) ==
    IF w.hi = 0 /\ w.lo < 16 THEN <<HexDigit(w.lo)>>
    ELSE Append(prot_ultohexstr(WDiv16(w)), HexDigit(WMod16(w)))

\* ------------------------------------------------------------------------
\* Text to number: strtoul(str, nullptr, 16) with a 32-bit unsigned long
\* ------------------------------------------------------------------------

IsSpace(c) == c \in {9, 10, 11, 12, 13, 32}

DigitVal(c) ==
    IF c \in 48..57 THEN c - 48
    ELSE IF c \in 97..102 THEN c - 87
    ELSE IF c \in 65..70 THEN c - 55
    ELSE 0 - 1

\* the characters of a buffer up to its first NUL: the C string it holds
RECURSIVE CStrFrom(_, _)
CStrFrom(buf, i) ==
    IF i > Len(buf) \/ buf[i] = ASCII_NULL THEN <<>>
    ELSE <<buf[i]>> \o CStrFrom(buf, i + 1)

CStr(buf) == CStrFrom(buf, 1)

RECURSIVE SkipSpace(_, _)
SkipSpace(s, i) ==
    IF i <= Len(s) /\ IsSpace(s[i]) THEN SkipSpace(s, i + 1) ELSE i

ULONG_MAX == W(Half - 1, Half - 1)

\* one more digit d on the value w: w * 16 + d in 32 bits
WShiftIn(w, d) ==
    W((w.hi % 4096) * 16 + (w.lo \div 4096), (w.lo % 4096) * 16 + d)

\* accumulate digits from position i; ovf once the value passed ULONG_MAX
RECURSIVE Accum(_, _, _, _)
Accum(s, i, w, ovf) ==
    IF i <= Len(s) /\ DigitVal(s[i]) >= 0
    THEN Accum(s, i + 1, WShiftIn(w, DigitVal(s[i])), ovf \/ w.hi >= 4096)
    ELSE [w |-> w, ovf |-> ovf]

strtoulResult(neg, acc) ==
    IF acc.ovf THEN ULONG_MAX
    ELSE IF neg THEN WNeg(acc.w)
    ELSE acc.w

\* an optional 0x or 0X before the digits
Has0x(s, i) ==
    /\ i + 2 <= Len(s)
    /\ s[i] = 48
    /\ s[i + 1] \in {88, 120}
    /\ DigitVal(s[i + 2]) >= 0

strtoulDigits(s, neg, i) ==
    strtoulResult(neg, Accum(s, IF Has0x(s, i) THEN i + 2 ELSE i, W(0, 0), FALSE))

\* an optional sign at position i
strtoulSign(s, i) ==
    IF i <= Len(s) /\ s[i] \in {43, ASCII_MINUS}
    THEN strtoulDigits(s, s[i] = ASCII_MINUS, i + 1)
    ELSE strtoulDigits(s, FALSE, i)

\* white space, sign, prefix, digits; ULONG_MAX on overflow
strtoul(s) == strtoulSign(s, SkipSpace(s, 1))

\* strchr(readBuf, '-'): the position of the first '-', 0 when there is none
RECURSIVE strchrFrom(_, _, _)
strchrFrom(s, c, i) ==
    IF i > Len(s) THEN 0
    ELSE IF s[i] = c THEN i
    ELSE strchrFrom(s, c, i + 1)

strchr(s, c) == strchrFrom(s, c, 1)

\* ------------------------------------------------------------------------
\* Transport reads: readBufferUntilTerminator / readStringUntilTerminator
\* ------------------------------------------------------------------------

\* the two ends of the link
Sides == {"host", "avr"}

\* position of the first terminator on a wire, 0 when there is none
TermPos(wire) == strchr(wire, PROT_TERM_CHAR)

Min(a, b) == IF a < b THEN a ELSE b

\* the first cells of buf overwritten by data
Store(buf, data) ==
    [i \in 1..Len(buf) |-> IF i <= Len(data) THEN data[i] ELSE buf[i]]

\* the result of a read: n bytes stored, the buffer, what is left on the
\* wire, and whether the transport was touched
ReadResult(n, buf, rest, io) == [n |-> n, buf |-> buf, rest |-> rest, io |-> io]

\* n bytes of the answer before the terminator at p are copied; a NUL is
\* added when there is room
DeviceCopy(wire, buf, size, p, n) ==
    ReadResult(n,
               IF n < size
               THEN [Store(buf, SubSeq(wire, 1, n)) EXCEPT ![n + 1] = ASCII_NULL]
               ELSE Store(buf, SubSeq(wire, 1, n)),
               SubSeq(wire, p + 1, Len(wire)), TRUE)

DeviceReadAt(wire, buf, size, p) ==
    IF p = 0 THEN ReadResult(0, buf, <<>>, TRUE)
    ELSE DeviceCopy(wire, buf, size, p, Min(p - 1, size))

\* Host: GetSerialAnswer returns the answer without its terminator, or fails
\* on a timeout; at most size bytes of it are copied.  A read on a session
\* that has not started returns 0 and touches nothing.
DeviceReadBufferUntilTerminator(st, wire, buf, size) ==
    IF ~st THEN ReadResult(0, buf, wire, FALSE)
    ELSE DeviceReadAt(wire, buf, size, TermPos(wire))

StreamTake(wire, buf, n, used) ==
    ReadResult(n, Store(buf, SubSeq(wire, 1, n)),
               SubSeq(wire, used + 1, Len(wire)), TRUE)

StreamReadAt(wire, buf, size, p) ==
    IF p # 0 /\ p - 1 <= size - 1 THEN StreamTake(wire, buf, p - 1, p)
    ELSE StreamTake(wire, buf, Min(Len(wire), size), Min(Len(wire), size))

\* AVR: Stream::readBytesUntil stores bytes until the terminator (consumed,
\* not stored), until size bytes are stored (the next byte is left unread) or
\* until the stream runs dry (timeout).
StreamReadBufferUntilTerminator(st, wire, buf, size) ==
    IF ~st \/ size < 1 THEN ReadResult(0, buf, wire, FALSE)
    ELSE StreamReadAt(wire, buf, size, TermPos(wire))

readBufferUntilTerminator(side, st, wire, buf, size) ==
    IF side = "host" THEN DeviceReadBufferUntilTerminator(st, wire, buf, size)
    ELSE StreamReadBufferUntilTerminator(st, wire, buf, size)

StringResult(ok, str, rest, io) ==
    [ok |-> ok, str |-> str, rest |-> rest, io |-> io]

ReadStringAt(side, wire, p) ==
    IF p # 0
    THEN StringResult(p - 1 # 0, SubSeq(wire, 1, p - 1),
                      SubSeq(wire, p + 1, Len(wire)), TRUE)
    ELSE IF side = "host" THEN StringResult(FALSE, <<>>, <<>>, TRUE)
    ELSE StringResult(Len(wire) # 0, wire, <<>>, TRUE)

\* getValueDelegate<prot_string_t>::call over readStringUntilTerminator:
\* GetSerialAnswer into a std::string on the host, Stream::readStringUntil on
\* the AVR; true when at least one character was read
getValueString(side, st, wire) ==
    IF ~st THEN StringResult(FALSE, <<>>, wire, FALSE)
    ELSE ReadStringAt(side, wire, TermPos(wire))

\* a character buffer of cap cells that was never written
FreshBuf(cap) == [i \in 1..cap |-> Garbage]

\* ------------------------------------------------------------------------
\* Transport writes: writeByte / writeBuffer
\* ------------------------------------------------------------------------

\* the result of a write step: success, the bytes put on the wire, and
\* whether the transport was touched
PutResult(ok, out, io) == [ok |-> ok, out |-> out, io |-> io]

writeBufferUnchecked(st, portOk, bytes) ==
    IF portOk THEN [n |-> Len(bytes), out |-> bytes, io |-> TRUE]
    ELSE [n |-> 0, out |-> <<>>, io |-> TRUE]

\* writeBuffer: all of the bytes, or none when the session has not started
\* or the port reports an error (WriteToComPort on the host; Stream::write
\* on the AVR does not fail)
writeBuffer(st, portOk, bytes) ==
    IF st /\ portOk THEN [n |-> Len(bytes), out |-> bytes, io |-> TRUE]
    ELSE [n |-> 0, out |-> <<>>, io |-> st]

\* true when the write wrote len bytes
Wrote(w, len) == PutResult(w.n = len, w.out, w.io)

\* writeByte: one byte, or false
writeByte(st, portOk, b) == Wrote(writeBuffer(st, portOk, <<b>>), 1)

\* ------------------------------------------------------------------------
\* Value codec
\* ------------------------------------------------------------------------

putValueTwosComplement(T, val) ==
    Append(prot_ultohexstr(val), PROT_TERM_CHAR)

\* putValueDelegate<T>::call: the buffer handed to writeBuffer.  A value of
\* type T is held as the word static_cast<prot_long_t> (signed T) or
\* static_cast<prot_ulong_t> (unsigned T) makes of it; -temp is the
\* negation of a 32-bit register.
putValueBuf(T, val) ==
    IF IS_SIGNED(T)
    THEN IF WIsNeg(val)
         THEN Append(<<ASCII_MINUS>> \o prot_ultohexstr(WNeg(val)), PROT_TERM_CHAR)
         ELSE Append(prot_ultohexstr(val), PROT_TERM_CHAR)
    ELSE Append(prot_ultohexstr(val), PROT_TERM_CHAR)

putValueSend(st, portOk, writeBuf) ==
    Wrote(writeBuffer(st, portOk, writeBuf), Len(writeBuf))

\* putValueDelegate<T>::call: true when the whole buffer was written
putValueDelegate(T, val, st, portOk) ==
    putValueSend(st, portOk, putValueBuf(T, val))

\* the result of a value read: success, the value, what is left on the
\* wire, and whether the transport was touched
ValResult(ok, val, rest, io) == [ok |-> ok, val |-> val, rest |-> rest, io |-> io]

\* the signed branch: the digits after a '-' are parsed and negated
getValueSigned(T, str, negSign, r) ==
    IF negSign # 0
    THEN ValResult(TRUE,
                   Cast(T, WNeg(strtoul(SubSeq(str, negSign + 1, Len(str))))),
                   r.rest, r.io)
    ELSE ValResult(TRUE, Cast(T, strtoul(str)), r.rest, r.io)

getValueConvert(T, str, r) ==
    IF IS_SIGNED(T) THEN getValueSigned(T, str, strchr(str, ASCII_MINUS), r)
    ELSE ValResult(TRUE, Cast(T, strtoul(str)), r.rest, r.io)

\* getValueDelegate<T>::call after the read r: nothing read is a failure;
\* the buffer is NUL-terminated after the bytes read and converted
getValueParse(T, r) ==
    IF r.n = 0 THEN ValResult(FALSE, W(0, 0), r.rest, r.io)
    ELSE getValueConvert(T, CStr([r.buf EXCEPT ![r.n + 1] = ASCII_NULL]), r)

\* a read buffer one character shorter
getValueDelegateShort(T, side, st, wire) ==
    getValueParse(T, readBufferUntilTerminator(side, st, wire,
                         FreshBuf(PROT_HEX_BUFF_SIZE), PROT_HEX_BUFF_SIZE - 2))

\* getValueDelegate<T>::call: read at most PROT_HEX_BUFF_SIZE - 1 bytes,
\* then parse
getValueDelegate(T, side, st, wire) ==
    getValueParse(T, readBufferUntilTerminator(side, st, wire,
                         FreshBuf(PROT_HEX_BUFF_SIZE), PROT_HEX_BUFF_SIZE - 1))

\* the terminator after the characters; true when both writes wrote all
putStringTerm(len, w1, w2) ==
    PutResult(w1.n + w2.n = len + 1, w1.out \o w2.out, w1.io \/ w2.io)

\* putString: the characters (when there are any), then the terminator, in
\* two writes
putString(str, st, portOk1, portOk2) ==
    putStringTerm(Len(str),
                  IF Len(str) > 0 THEN writeBuffer(st, portOk1, str)
                  ELSE [n |-> 0, out |-> <<>>, io |-> FALSE],
                  writeBuffer(st, portOk2, <<PROT_TERM_CHAR>>))

getStringNul(r, size, term, inside) ==
    [ok |-> r.n # 0,
     buf |-> IF term /\ inside THEN [r.buf EXCEPT ![r.n + 1] = ASCII_NULL]
             ELSE r.buf,
     oob |-> term /\ ~inside,
     n |-> r.n, rest |-> r.rest, io |-> r.io]

\* the NUL goes in when bytesRead < size - 1, computed in size_t (size = 0
\* makes size - 1 the largest size_t); oob: it was stored outside strbuf
getStringRead(r, size, cap) ==
    getStringNul(r, size, size = 0 \/ r.n < size - 1, r.n + 1 <= cap)

\* getString(strbuf, size): true when at least one byte was read
getString(side, st, wire, strbuf, size) ==
    getStringRead(readBufferUntilTerminator(side, st, wire, strbuf, size),
                  size, Len(strbuf))

FloatToBitsNoSign(f) ==
    W(f.exp * 128 + (f.mant \div Half), f.mant % Half)

\* A prot_float_t is an IEEE-754 binary32: sign, biased exponent, mantissa.
\* reinterpret_cast<prot_ulong_t*>: the 32 bits of the float as a word
FloatToBits(f) ==
    W(f.sign * 32768 + f.exp * 128 + (f.mant \div Half), f.mant % Half)

\* reinterpret_cast<prot_float_t*>: the float a word's 32 bits stand for
BitsToFloat(w) ==
    [sign |-> w.hi \div 32768,
     exp |-> (w.hi % 32768) \div 128,
     mant |-> (w.hi % 128) * Half + w.lo]

\* putValueDelegate<prot_float_t>::call with PROT_FLOAT_IEEE754
putValueFloat(f, st, portOk) ==
    putValueDelegate(T_ulong, FloatToBits(f), st, portOk)

getValueFloatOf(r) == ValResult(r.ok, BitsToFloat(r.val), r.rest, r.io)

\* getValueDelegate<prot_float_t>::call with PROT_FLOAT_IEEE754
getValueFloat(side, st, wire) ==
    getValueFloatOf(getValueDelegate(T_ulong, side, st, wire))

\* putValue<T>: the delegate of T
putValue(T, val, st, portOk) ==
    IF T.fp THEN putValueFloat(val, st, portOk)
    ELSE putValueDelegate(T, val, st, portOk)

\* getValue<T>: the delegate of T
getValue(T, side, st, wire) ==
    IF T.fp THEN getValueFloat(side, st, wire)
    ELSE getValueDelegate(T, side, st, wire)

\* ------------------------------------------------------------------------
\* Frame layer
\* ------------------------------------------------------------------------

\* a && b of two writes: b runs only when a succeeded
AndThen(a, b) ==
    IF a.ok THEN PutResult(b.ok, a.out \o b.out, TRUE) ELSE a

\* putCommand: one raw byte
putCommand(cmd, st, portOk) == writeByte(st, portOk, cmd)

\* hasByte / hasCommand on the AVR: Stream::available() > 0
hasCommand(st, wire) == st /\ Len(wire) > 0

\* getCommand: one raw byte, PROT_ERROR when readByte fails
getCommand(st, wire) ==
    IF st /\ Len(wire) > 0
    THEN [cmd |-> Head(wire), rest |-> Tail(wire), io |-> TRUE]
    ELSE [cmd |-> PROT_ERROR, rest |-> wire, io |-> st]

replyRaw(cmd, st, portOk) == writeByte(st, portOk, cmd)

\* reply: the command through the command codec (hex digits, terminated)
reply(cmd, st, portOk) == putValue(T_cmd, FromNat(cmd), st, portOk)

replyErrorKeep(r) == r

\* replyError's return statement: false, whatever reply returned
replyErrorOf(r) == PutResult(FALSE, r.out, r.io)

\* replyError: PROT_ERROR through the command codec; always false
replyError(st, portOk) ==
    replyErrorOf(putValue(T_cmd, FromNat(PROT_ERROR), st, portOk))

checkReplyAny(cmd, r) == [ok |-> r.ok, rest |-> r.rest, io |-> r.io]

checkReplyOf(cmd, r) ==
    [ok |-> r.ok /\ r.val = FromNat(cmd), rest |-> r.rest, io |-> r.io]

\* checkReply: a command value was read and it equals cmd
checkReply(cmd, side, st, wire) == checkReplyOf(cmd, getValue(T_cmd, side, st, wire))

\* ------------------------------------------------------------------------
\* Sampled inputs
\* ------------------------------------------------------------------------

Other(side) == IF side = "host" THEN "avr" ELSE "host"

\* WriteToComPort may report an error; Stream::write does not
PortOutcomes(side) == IF side = "host" THEN BOOLEAN ELSE {TRUE}

\* words at the edges of the digit counts and of the signed range
BoundaryWords ==
    {W(0, 0), W(0, 15), W(0, 16), W(0, 255), W(0, 256), W(0, 333), W(0, 4095),
     W(0, 32767), W(0, 32768), W(0, 65535), W(1, 0), W(4660, 22136),
     W(16256, 0), W(32767, 65535), W(32768, 0), W(32768, 1),
     W(43981, 61185), W(65535, 65280), W(65535, 65534), W(65535, 65535)}

WordSamples ==
    BoundaryWords \cup {FromInt(i) : i \in (0 - MaxSmall)..MaxSmall}

IntTypes == {T_cmd, T_chan, T_size, T_long, T_ulong}

\* the values a variable of type T can hold, among the samples
ValuesOf(T) == {Cast(T, w) : w \in WordSamples}

\* floats of every class: zeros, subnormals, normals, infinities, NaNs
FloatSamples ==
    [sign : {0, 1}, exp : {0, 1, 127, 128, 254, 255},
     mant : {0, 1, 4194304, 8388607}]

\* command bytes under which a float is set
FloatCmds == {70}

IsNaN(f) == f.exp = 255 /\ f.mant # 0

\* characters of the sampled strings: a letter, a digit, the minus sign
Alphabet == {97, 48, ASCII_MINUS}

RECURSIVE StringsUpTo(_)
StringsUpTo(n) ==
    IF n = 0 THEN {<<>>}
    ELSE StringsUpTo(n - 1) \cup
         {Append(t, c) : t \in {u \in StringsUpTo(n - 1) : Len(u) = n - 1},
                         c \in Alphabet}

StringSamples == StringsUpTo(MaxStrLen)

\* command bytes: the smallest, the largest, PROT_ERROR itself, letters
CmdBytes == {0, 1, PROT_ERROR, 77, 83, 255}

\* sizes of the receiving character buffer
BufSizes == 1..(MaxStrLen + 3)

\* ------------------------------------------------------------------------
\* Codec specification: one value written by one end and read by the other
\* ------------------------------------------------------------------------

CodecBlank ==
    [phase |-> "idle", kind |-> "none", T |-> T_cmd, val |-> W(0, 0),
     wside |-> "host", wst |-> FALSE, wok |-> FALSE, wire |-> <<>>,
     cmd |-> 0, rst |-> FALSE, via |-> "none", size |-> 0, rcmd |-> 0,
     rok |-> FALSE, out |-> W(0, 0), oob |-> FALSE, rest |-> <<>>,
     rT |-> T_cmd]

\* the state after a put of val by the end side, with result w
CodecSent(kind, T, val, side, st, w) ==
    [CodecBlank EXCEPT !.phase = "sent", !.kind = kind, !.T = T, !.val = val,
                       !.wside = side, !.wst = st, !.wok = w.ok,
                       !.wire = w.out]

CodecSentSet(cmd, T, val, st, w) ==
    [CodecSent("set", T, val, "host", st, w) EXCEPT !.cmd = cmd]

\* the state after a get by the other end, with result r
CodecGot(via, st, size, r, out, oob) ==
    [codec EXCEPT !.phase = "got", !.via = via, !.rst = st, !.size = size,
                  !.rok = r.ok, !.out = out, !.oob = oob, !.rest = r.rest]

\* the C string in a character buffer; Garbage when no NUL ends it
BufStr(buf) ==
    IF \E i \in 1..Len(buf) : buf[i] = ASCII_NULL THEN CStr(buf)
    ELSE Append(buf, Garbage)

CodecGotString(st, size, r) ==
    CodecGot("getString", st, size, r, BufStr(r.buf), r.oob)

CodecGotValue(via, st, r) == CodecGot(via, st, 0, r, r.val, FALSE)

CodecGotStringValue(st, r) == CodecGot("getValue", st, 0, r, r.str, FALSE)

CodecGotSet(st, g, r) ==
    [CodecGotValue("getValue", st, r) EXCEPT !.rcmd = g.cmd]

CodecReadSet(st, g) ==
    CodecGotSet(st, g, getValue(codec.T, "avr", st, g.rest))

protoVars == <<started, h2s, s2h, host, dev>>

\* putValue<T> of an integer type
CodecPutValue ==
    /\ UNCHANGED <<protoVars, thr, lock>>
    /\ codec.phase = "idle"
    /\ \E T \in IntTypes, side \in Sides, st \in BOOLEAN :
         \E val \in ValuesOf(T), portOk \in PortOutcomes(side) :
           codec' = CodecSent("value", T, val, side, st,
                              putValue(T, val, st, portOk))

\* getValue<T> of what was written
CodecGetValue ==
    /\ UNCHANGED <<protoVars, thr, lock>>
    /\ codec.phase = "sent"
    /\ codec.kind = "value"
    /\ \E st \in BOOLEAN :
         codec' = CodecGotValue("getValue", st,
                     getValue(codec.T, Other(codec.wside), st, codec.wire))

\* putValue<prot_float_t>
CodecPutFloat ==
    /\ UNCHANGED <<protoVars, thr, lock>>
    /\ codec.phase = "idle"
    /\ \E f \in FloatSamples, side \in Sides, st \in BOOLEAN :
         \E portOk \in PortOutcomes(side) :
           codec' = CodecSent("float", T_float, f, side, st,
                              putValue(T_float, f, st, portOk))

\* getValue<prot_float_t>
CodecGetFloat ==
    /\ UNCHANGED <<protoVars, thr, lock>>
    /\ codec.phase = "sent"
    /\ codec.kind = "float"
    /\ \E st \in BOOLEAN :
         codec' = CodecGotValue("getValue", st,
                     getValue(T_float, Other(codec.wside), st, codec.wire))

\* the writes of dispatchSet<prot_float_t>: putCommand && putValue
CodecSetFloat ==
    /\ UNCHANGED <<protoVars, thr, lock>>
    /\ codec.phase = "idle"
    /\ \E cmd \in FloatCmds, f \in FloatSamples, st \in BOOLEAN :
         \E portOk1, portOk2 \in PortOutcomes("host") :
           codec' = CodecSentSet(cmd, T_float, f, st,
                       AndThen(putCommand(cmd, st, portOk1),
                               putValue(T_float, f, st, portOk2)))

\* the reads of the responder: getCommand, then processSet's getValue
CodecProcessSet ==
    /\ UNCHANGED <<protoVars, thr, lock>>
    /\ codec.phase = "sent"
    /\ codec.kind = "set"
    /\ \E st \in BOOLEAN :
         codec' = CodecReadSet(st, getCommand(st, codec.wire))

\* putString, which is also putValue<prot_string_t>
CodecPutString ==
    /\ UNCHANGED <<protoVars, thr, lock>>
    /\ codec.phase = "idle"
    /\ \E str \in StringSamples, side \in Sides, st \in BOOLEAN :
         \E portOk1, portOk2 \in PortOutcomes(side) :
           codec' = CodecSent("string", T_cmd, str, side, st,
                              putString(str, st, portOk1, portOk2))

\* getString into a fresh buffer of size cells
CodecGetString ==
    /\ UNCHANGED <<protoVars, thr, lock>>
    /\ codec.phase = "sent"
    /\ codec.kind = "string"
    /\ \E st \in BOOLEAN, size \in BufSizes :
         codec' = CodecGotString(st, size,
                     getString(Other(codec.wside), st, codec.wire,
                               FreshBuf(size), size))

\* getValue<prot_string_t>
CodecGetStringValue ==
    /\ UNCHANGED <<protoVars, thr, lock>>
    /\ codec.phase = "sent"
    /\ codec.kind = "string"
    /\ \E st \in BOOLEAN :
         codec' = CodecGotStringValue(st,
                     getValueString(Other(codec.wside), st, codec.wire))

\* a reply as the initiator finds it: whole, or cut before its terminator
\* when the read times out first
CodecSentReply(v, st, cut, w) ==
    [CodecSent(IF cut THEN "replyCut" ELSE "reply", T_cmd, FromNat(v), "avr",
               st, w)
       EXCEPT !.wire = IF cut /\ w.out # <<>>
                       THEN SubSeq(w.out, 1, Len(w.out) - 1) ELSE w.out]

\* reply(v) by the responder; replyError() is reply(PROT_ERROR)
CodecReply ==
    /\ UNCHANGED <<protoVars, thr, lock>>
    /\ codec.phase = "idle"
    /\ \E v \in CmdBytes, st \in BOOLEAN, cut \in BOOLEAN :
         codec' = CodecSentReply(v, st, cut, reply(v, st, TRUE))

CodecChecked(c, st, r) ==
    [codec EXCEPT !.phase = "got", !.via = "checkReply", !.rst = st,
                  !.rcmd = c, !.rok = r.ok, !.rest = r.rest]

\* checkReply(c) by the initiator
CodecCheckReply ==
    /\ UNCHANGED <<protoVars, thr, lock>>
    /\ codec.phase = "sent"
    /\ codec.kind \in {"reply", "replyCut"}
    /\ \E c \in CmdBytes, st \in BOOLEAN :
         codec' = CodecChecked(c, st, checkReply(c, "host", st, codec.wire))

\* getValue<T2> of what was written as a value of another type
CodecGetValueAs ==
    /\ UNCHANGED <<protoVars, thr, lock>>
    /\ codec.phase = "sent"
    /\ codec.kind = "value"
    /\ \E T2 \in IntTypes \ {codec.T}, st \in BOOLEAN :
         codec' = [CodecGotValue("getValueAs", st,
                                 getValue(T2, Other(codec.wside), st,
                                          codec.wire))
                     EXCEPT !.rT = T2, !.phase = "decoded"]

\* checkReply(c) of what was written as a value
CodecCheckValue ==
    /\ UNCHANGED <<protoVars, thr, lock>>
    /\ codec.phase = "sent"
    /\ codec.kind = "value"
    /\ \E c \in CmdBytes, st \in BOOLEAN :
         codec' = [CodecChecked(c, st, checkReply(c, Other(codec.wside), st,
                                                  codec.wire))
                     EXCEPT !.via = "checkValue", !.phase = "decoded"]

CodecNext ==
    \/ CodecReply
    \/ CodecCheckReply
    \/ CodecGetValueAs
    \/ CodecCheckValue
    \/ CodecPutValue
    \/ CodecGetValue
    \/ CodecPutFloat
    \/ CodecGetFloat
    \/ CodecSetFloat
    \/ CodecProcessSet
    \/ CodecPutString
    \/ CodecGetString
    \/ CodecGetStringValue

vars == <<codec, started, h2s, s2h, host, dev, thr, lock>>

\* ------------------------------------------------------------------------
\* Properties of the codec
\* ------------------------------------------------------------------------

\* the sixteen lowercase hexadecimal digit characters, by value
LowerHex ==
    <<48, 49, 50, 51, 52, 53, 54, 55, 56, 57, 97, 98, 99, 100, 101, 102>>

\* the k-th hexadecimal digit of a word, counted from the least significant
NibbleOf(w, k) ==
    IF k < 4 THEN (w.lo \div (16 ^ k)) % 16
    ELSE (w.hi \div (16 ^ (k - 4))) % 16

\* ds is the shortest lowercase hexadecimal numeral of the word w
IsShortestLowerHex(ds, w) ==
    /\ Len(ds) \in 1..8
    /\ \A k \in 0..(Len(ds) - 1) : ds[Len(ds) - k] = LowerHex[NibbleOf(w, k) + 1]
    /\ \A k \in Len(ds)..7 : NibbleOf(w, k) = 0
    /\ Len(ds) > 1 => ds[1] # 48

\* payload is a numeral of w followed by exactly one terminator
IsHexPayload(payload, w) ==
    /\ Len(payload) >= 2
    /\ payload[Len(payload)] = PROT_TERM_CHAR
    /\ IsShortestLowerHex(SubSeq(payload, 1, Len(payload) - 1), w)

\* C6: every unsigned 32-bit value u that putValue wrote is on the wire as
\* the shortest lowercase hexadecimal numeral of u (characters 0-9 and a-f
\* only) followed by one TERM, and getValue of that payload into an unsigned
\* 32-bit target by a started receiver succeeds and yields u.
C6_UnsignedRoundTrip ==
    (codec.kind = "value" /\ codec.T = T_ulong /\ codec.wok) =>
        /\ IsHexPayload(codec.wire, codec.val)
        /\ (codec.phase = "got" /\ codec.rst) =>
               (codec.rok /\ codec.out = codec.val)

C6_Witness ==
    /\ codec.phase = "got"
    /\ codec.kind = "value"
    /\ codec.T = T_ulong
    /\ codec.val = W(65535, 65535)
    /\ codec.wire = <<102, 102, 102, 102, 102, 102, 102, 102, 4>>
    /\ codec.rok
    /\ codec.out = W(65535, 65535)

\* C7: every signed 32-bit value i that putValue wrote is read back as i by
\* getValue on a started receiver; a negative i is on the wire as '-' and
\* the numeral of its absolute value (negation modulo 2^32), a non-negative
\* i as its numeral; the minimum value is written "-80000000" plus TERM.
C7_SignedRoundTrip ==
    (codec.kind = "value" /\ codec.T = T_long /\ codec.wok) =>
        /\ IF WIsNeg(codec.val)
           THEN /\ Head(codec.wire) = ASCII_MINUS
                /\ IsHexPayload(Tail(codec.wire), WNeg(codec.val))
           ELSE IsHexPayload(codec.wire, codec.val)
        /\ codec.val = W(32768, 0) =>
               codec.wire = <<45, 56, 48, 48, 48, 48, 48, 48, 48, 4>>
        /\ (codec.phase = "got" /\ codec.rst) =>
               (codec.rok /\ codec.out = codec.val)

C7_Witness ==
    /\ codec.phase = "got"
    /\ codec.kind = "value"
    /\ codec.T = T_long
    /\ codec.val = W(32768, 0)
    /\ codec.wire = <<45, 56, 48, 48, 48, 48, 48, 48, 48, 4>>
    /\ codec.rok
    /\ codec.out = W(32768, 0)

\* C9: every string s without a TERM byte, the empty string included, that
\* putString wrote travels as its characters followed by one TERM, and a
\* started receiver (getString into a buffer with room for s, or
\* getValue<string>) reports success and yields s.
C9_StringRoundTrip ==
    (codec.kind = "string" /\ codec.wok) =>
        /\ codec.wire = Append(codec.val, PROT_TERM_CHAR)
        /\ ( /\ codec.phase = "got"
             /\ codec.rst
             /\ codec.via = "getString" => codec.size >= Len(codec.val) + 2 ) =>
               (codec.rok /\ codec.out = codec.val)

C9_Witness ==
    /\ codec.phase = "got"
    /\ codec.kind = "string"
    /\ codec.val = <<>>
    /\ codec.wok
    /\ codec.wire = <<PROT_TERM_CHAR>>
    /\ codec.rst
    /\ ~codec.rok

\* a payload written as an unsigned long was decoded into the type rT
\* (prot_cmd_t by checkReply), and its value exceeds the width of that type
C29_Overflow ==
    /\ codec.phase = "decoded"
    /\ codec.kind = "value"
    /\ codec.T = T_ulong
    /\ codec.wok
    /\ codec.rst
    /\ \/ codec.via = "getValueAs" /\ Cast(codec.rT, codec.val) # codec.val
       \/ codec.via = "checkValue" /\ Cast(T_cmd, codec.val) # codec.val

\* C29: decoding a hex payload whose value exceeds the width of the target
\* type is reported as a failure and never yields a truncated value:
\* checkReply(0x4d) does not accept "14d", and getValue into a 16-bit size
\* does not accept "10000".
C29_DecodeOverflow == C29_Overflow => ~codec.rok

C29_Witness ==
    /\ codec.phase = "decoded"
    /\ codec.via = "checkValue"
    /\ codec.wire = <<49, 52, 100, 4>>
    /\ codec.val = W(0, 333)
    /\ codec.rcmd = 77
    /\ codec.rst
    /\ codec.rok

\* checkReply(c) is true exactly when the initiator read a terminated value
\* and the value decoded from it equals c
C12_Iff ==
    (codec.phase = "got" /\ codec.via = "checkReply") =>
        (codec.rok <=> ( /\ codec.rst
                         /\ codec.wok
                         /\ codec.kind = "reply"
                         /\ codec.val = FromNat(codec.rcmd) ))

\* C12 as written: checkReply(c) is true exactly when a terminated value
\* was read and equals c, and for every command byte c a reply that carries
\* ERROR or a value different from c makes checkReply(c) false.
C12_AsWritten ==
    /\ C12_Iff
    /\ (codec.phase = "got" /\ codec.via = "checkReply") =>
         ((codec.val = FromNat(PROT_ERROR) \/ codec.val # FromNat(codec.rcmd))
              => ~codec.rok)

\* C37: every value of every integer type that putValue wrote is on the
\* wire as at most 9 characters, the leading '-' included, so with its
\* terminator it fits the write buffer of PROT_HEX_BUFF_SIZE bytes, and
\* getValue, which reads at most PROT_HEX_BUFF_SIZE - 1 characters, reads
\* the whole payload and yields the value that was written.
C37_Fits ==
    (codec.kind = "value" /\ codec.wok) =>
        /\ Len(codec.wire) <= PROT_HEX_BUFF_SIZE
        /\ TermPos(codec.wire) = Len(codec.wire)
        /\ TermPos(codec.wire) - 1 <= PROT_HEX_BUFF_SIZE - 1
        /\ (codec.phase = "got" /\ codec.rst) =>
               (codec.rok /\ codec.out = codec.val)

C37_Witness ==
    /\ codec.phase = "got"
    /\ codec.kind = "value"
    /\ codec.T = T_long
    /\ codec.wside = "host"
    /\ codec.val = W(32768, 0)
    /\ Len(codec.wire) = PROT_HEX_BUFF_SIZE
    /\ codec.rst
    /\ codec.rok
    /\ codec.out = W(32768, 0)
    /\ codec.rest = <<PROT_TERM_CHAR>>

\* C38: after getString(buf, size) with size >= 1 returned true, buf holds
\* a NUL at an index below size and nothing was stored at or beyond index
\* size: the C string in buf ends inside the buffer.
C38_Terminated ==
    ( /\ codec.phase = "got"
      /\ codec.via = "getString"
      /\ codec.size >= 1
      /\ codec.rok ) =>
        /\ ~codec.oob
        /\ \A i \in 1..Len(codec.out) : codec.out[i] # Garbage

C38_Witness ==
    /\ codec.phase = "got"
    /\ codec.via = "getString"
    /\ codec.wside = "host"
    /\ codec.val = <<97, 97, 97>>
    /\ codec.wire = <<97, 97, 97, PROT_TERM_CHAR>>
    /\ codec.size = 4
    /\ codec.rst
    /\ codec.rok
    /\ codec.out = <<97, 97, 97, Garbage, Garbage>>

\* C12: checkReply(c) is true exactly when a terminated value was read and
\* equals c; a reply that carries a value different from c, and for every
\* command byte c other than ERROR a reply that carries ERROR, makes
\* checkReply(c) false.
C12_CheckReply ==
    /\ C12_Iff
    /\ (codec.phase = "got" /\ codec.via = "checkReply") =>
         /\ codec.val # FromNat(codec.rcmd) => ~codec.rok
         /\ (codec.val = FromNat(PROT_ERROR) /\ codec.rcmd # PROT_ERROR)
                => ~codec.rok

C12_Witness ==
    /\ codec.phase = "got"
    /\ codec.via = "checkReply"
    /\ codec.rst
    /\ codec.wire = <<49, 53, 4>>
    /\ codec.rcmd = 83
    /\ ~codec.rok

\* the k-th hexadecimal digit of the bit pattern of a binary32 float
FloatNibble(f, k) ==
    IF k < 5 THEN (f.mant \div (16 ^ k)) % 16
    ELSE IF k = 5 THEN (f.mant \div (16 ^ 5)) + (f.exp % 2) * 8
    ELSE IF k = 6 THEN (f.exp \div 2) % 16
    ELSE f.sign * 8 + (f.exp \div 32)

\* ds is the shortest lowercase hexadecimal numeral of the bits of f
IsFloatHex(ds, f) ==
    /\ Len(ds) \in 1..8
    /\ \A k \in 0..(Len(ds) - 1) : ds[Len(ds) - k] = LowerHex[FloatNibble(f, k) + 1]
    /\ \A k \in Len(ds)..7 : FloatNibble(f, k) = 0
    /\ Len(ds) > 1 => ds[1] # 48

\* the float 1.0
FloatOne == [sign |-> 0, exp |-> 127, mant |-> 0]

\* C10: a float that was written is on the wire as the shortest lowercase
\* hexadecimal numeral of its 32-bit pattern plus TERM (after the raw
\* command byte when it is set under a command); a started receiver reads
\* back every pattern that is not a NaN bit for bit; 1.0 set under command
\* 0x46 is the byte 0x46, then "3f800000", then TERM.
C10_FloatBits ==
    (codec.T = T_float /\ codec.wok) =>
        /\ codec.kind = "float" =>
               /\ codec.wire[Len(codec.wire)] = PROT_TERM_CHAR
               /\ IsFloatHex(SubSeq(codec.wire, 1, Len(codec.wire) - 1), codec.val)
        /\ codec.kind = "set" =>
               /\ Head(codec.wire) = codec.cmd
               /\ codec.wire[Len(codec.wire)] = PROT_TERM_CHAR
               /\ IsFloatHex(SubSeq(codec.wire, 2, Len(codec.wire) - 1), codec.val)
        /\ (codec.kind = "set" /\ codec.cmd = 70 /\ codec.val = FloatOne) =>
               codec.wire = <<70, 51, 102, 56, 48, 48, 48, 48, 48, 4>>
        /\ (codec.phase = "got" /\ codec.rst /\ ~IsNaN(codec.val)) =>
               (codec.rok /\ codec.out = codec.val)

C10_Witness ==
    /\ codec.phase = "got"
    /\ codec.kind = "set"
    /\ codec.cmd = 70
    /\ codec.rcmd = 70
    /\ codec.val = FloatOne
    /\ codec.wire = <<70, 51, 102, 56, 48, 48, 48, 48, 48, 4>>
    /\ codec.rok
    /\ codec.out = FloatOne

\* ------------------------------------------------------------------------
\* Responder: the processXXX handlers
\* ------------------------------------------------------------------------

\* what a handler did: its return value, the bytes it wrote, the reply
\* values among them, what is left of the input, and the argument it read
Handled(ok, out, replies, rest, arg) ==
    [ok |-> ok, out |-> out, replies |-> replies, rest |-> rest, arg |-> arg]

\* an argument that was not read
NoArg == [ok |-> FALSE, val |-> W(0, 0)]

\* reply(cmd) or replyError() as the handler's last statement
Replied(v, w, rest, arg) ==
    Handled(w.ok, w.out, IF w.io THEN <<v>> ELSE <<>>, rest, arg)

\* return test(reply(cmd) && putValue(val)): one reply, then the payload
RepliedWith(cmd, w, rest) == Replied(cmd, w, rest, NoArg)

\* a statement e (its result dropped) followed by the statements of h
After(e, h) ==
    Handled(h.ok, e.out \o h.out, e.replies \o h.replies, h.rest, h.arg)

\* processTask(cmd, taskFn)
processTask(cmd, taskOk, st, wire) ==
    IF taskOk THEN Replied(cmd, reply(cmd, st, TRUE), wire, NoArg)
    ELSE Replied(PROT_ERROR, replyError(st, TRUE), wire, NoArg)

processSetGotSilent(cmd, afterSet, st, g) ==
    IF g.ok
    THEN IF afterSet = "fail"
         THEN Replied(PROT_ERROR, replyError(st, TRUE), g.rest, g)
         ELSE Replied(cmd, reply(cmd, st, TRUE), g.rest, g)
    ELSE Handled(FALSE, <<>>, <<>>, g.rest, NoArg)

processSetGot(cmd, afterSet, st, g) ==
    IF g.ok
    THEN IF afterSet = "fail"
         THEN Replied(PROT_ERROR, replyError(st, TRUE), g.rest, g)
         ELSE Replied(cmd, reply(cmd, st, TRUE), g.rest, g)
    ELSE Replied(PROT_ERROR, replyError(st, TRUE), g.rest, NoArg)

\* processSet<T>(cmd, val, afterSet): the value is stored once it is read
processSet(cmd, T, afterSet, st, wire) ==
    processSetGot(cmd, afterSet, st, getValue(T, "avr", st, wire))

processSetFnGot(cmd, setOk, st, g) ==
    IF g.ok /\ setOk THEN Replied(cmd, reply(cmd, st, TRUE), g.rest, g)
    ELSE Replied(PROT_ERROR, replyError(st, TRUE), g.rest, NoArg)

\* processSet<T>(cmd, setFn)
processSetFn(cmd, T, setOk, st, wire) ==
    processSetFnGot(cmd, setOk, st, getValue(T, "avr", st, wire))

processGetReturnValueFirst(cmd, T, val, st, wire) ==
    RepliedWith(cmd, AndThen(putValue(T, val, st, TRUE), reply(cmd, st, TRUE)),
                wire)

processGetReturn(cmd, T, val, st, wire) ==
    RepliedWith(cmd, AndThen(reply(cmd, st, TRUE), putValue(T, val, st, TRUE)),
                wire)

\* processGet<T>(cmd, val, beforeGet): a failing beforeGet calls
\* replyError() and falls through to the reply and the value
processGet(cmd, T, val, beforeGet, st, wire) ==
    IF beforeGet = "fail"
    THEN After(Replied(PROT_ERROR, replyError(st, TRUE), wire, NoArg),
               processGetReturn(cmd, T, val, st, wire))
    ELSE processGetReturn(cmd, T, val, st, wire)

\* processGet<T>(cmd, getFn)
processGetFn(cmd, T, val, getOk, st, wire) ==
    IF getOk
    THEN RepliedWith(cmd, AndThen(reply(cmd, st, TRUE),
                                  putValue(T, val, st, TRUE)), wire)
    ELSE Replied(PROT_ERROR, replyError(st, TRUE), wire, NoArg)

StringArg(g) == [ok |-> TRUE, val |-> BufStr(g.buf)]

processSetStringGot(cmd, afterSet, st, g) ==
    IF g.ok
    THEN IF afterSet = "fail"
         THEN Replied(PROT_ERROR, replyError(st, TRUE), g.rest, StringArg(g))
         ELSE Replied(cmd, reply(cmd, st, TRUE), g.rest, StringArg(g))
    ELSE Replied(PROT_ERROR, replyError(st, TRUE), g.rest, NoArg)

\* processSetString(cmd, strbuf, size, afterSet)
processSetString(cmd, size, afterSet, st, wire) ==
    processSetStringGot(cmd, afterSet, st,
                        getString("avr", st, wire, FreshBuf(size), size))

processGetStringReturn(cmd, str, st, wire) ==
    RepliedWith(cmd, AndThen(reply(cmd, st, TRUE),
                             putString(str, st, TRUE, TRUE)), wire)

\* processGetString(cmd, str, beforeGet): as processGet
processGetString(cmd, str, beforeGet, st, wire) ==
    IF beforeGet = "fail"
    THEN After(Replied(PROT_ERROR, replyError(st, TRUE), wire, NoArg),
               processGetStringReturn(cmd, str, st, wire))
    ELSE processGetStringReturn(cmd, str, st, wire)

\* processGetString(cmd, strbufFn)
processGetStringFn(cmd, str, fnOk, st, wire) ==
    IF fnOk
    THEN RepliedWith(cmd, AndThen(reply(cmd, st, TRUE),
                                  putString(str, st, TRUE, TRUE)), wire)
    ELSE Replied(PROT_ERROR, replyError(st, TRUE), wire, NoArg)

\* ------------------------------------------------------------------------
\* Responder: the array handlers processSetArray / processGetArray
\* ------------------------------------------------------------------------

\* The device's array d: its buffer arr (a function from the indices that
\* were written to their elements), the capacity max of the buffer, the
\* current length size, and oob: a cell outside the buffer was accessed.

\* what an array handler did: the sub-command and index it decoded, its
\* return value, the bytes it wrote, the reply among them, what is left of
\* the input, and the array afterwards
ArrHandled(sub, idx, w, v, rest, arr, size, oob) ==
    [sub |-> sub, idx |-> idx, ok |-> w.ok, out |-> w.out,
     replies |-> IF w.io THEN <<v>> ELSE <<>>, rest |-> rest,
     arr |-> arr, size |-> size, oob |-> oob]

\* return replyError(): the array is as it was
ArrError(sub, idx, st, rest, d) ==
    ArrHandled(sub, idx, replyError(st, TRUE), PROT_ERROR, rest,
               d.arr, d.size, d.oob)

\* return reply(cmd)
ArrAck(sub, idx, cmd, st, rest, arr, size, oob) ==
    ArrHandled(sub, idx, reply(cmd, st, TRUE), cmd, rest, arr, size, oob)

\* return test(reply(cmd) && putValue(val))
ArrAckValue(sub, idx, cmd, T, val, st, rest, d, oob) ==
    ArrHandled(sub, idx,
               AndThen(reply(cmd, st, TRUE), putValue(T, val, st, TRUE)),
               cmd, rest, d.arr, d.size, oob)

\* pArr[index] = el
ArrPut(arr, index, el) ==
    [j \in DOMAIN arr \cup {index} |-> IF j = index THEN el ELSE arr[j]]

\* el = pArr[index]; a cell that was never written holds its initial zero
ArrGet(arr, index) == IF index \in DOMAIN arr THEN arr[index] ELSE W(0, 0)

processSetArrayElementUnchecked(cmd, d, st, index, ge) ==
    IF ge.ok
    THEN ArrAck(SUBCMD_ARRAY_ELEMENT, index, cmd, st, ge.rest,
                ArrPut(d.arr, index, ge.val), d.size,
                d.oob \/ index >= d.max)
    ELSE ArrError(SUBCMD_ARRAY_ELEMENT, index, st, ge.rest, d)

\* SUBCMD_ARRAY_ELEMENT: getValue(index) && getValue(el) && index < maxSize
processSetArrayElement(cmd, d, st, index, ge) ==
    IF ge.ok /\ index < d.max
    THEN ArrAck(SUBCMD_ARRAY_ELEMENT, index, cmd, st, ge.rest,
                ArrPut(d.arr, index, ge.val), d.size,
                d.oob \/ index >= d.max)
    ELSE ArrError(SUBCMD_ARRAY_ELEMENT, index, st, ge.rest, d)

processSetArrayIndex(cmd, d, st, gi) ==
    IF gi.ok
    THEN processSetArrayElement(cmd, d, st, gi.val.lo,
                                getValue(T_int, "avr", st, gi.rest))
    ELSE ArrError(SUBCMD_ARRAY_ELEMENT, 0, st, gi.rest, d)

\* SUBCMD_ARRAY_FINISHED: getValue(finalSize) stores the length, then the
\* optional afterSet task runs
processSetArrayFinished(cmd, d, st, gf) ==
    IF gf.ok
    THEN IF d.handler.hook = "fail"
         THEN ArrHandled(SUBCMD_ARRAY_FINISHED, gf.val.lo,
                         replyError(st, TRUE), PROT_ERROR, gf.rest,
                         d.arr, gf.val.lo, d.oob)
         ELSE ArrAck(SUBCMD_ARRAY_FINISHED, gf.val.lo, cmd, st, gf.rest,
                     d.arr, gf.val.lo, d.oob)
    ELSE ArrError(SUBCMD_ARRAY_FINISHED, 0, st, gf.rest, d)

\* a handler that acknowledges SUBCMD_ARRAY_STARTING
processSetArraySubStarting(cmd, d, st, g) ==
    IF g.ok /\ g.val = FromNat(SUBCMD_ARRAY_STARTING)
    THEN ArrAck(SUBCMD_ARRAY_STARTING, 0, cmd, st, g.rest, d.arr, d.size,
                d.oob)
    ELSE ArrError(IF g.ok THEN g.val.lo ELSE 0, 0, st, g.rest, d)

\* the sub-commands of processSetArray once getValue<int>(subCmd) returned g
processSetArraySub(cmd, d, st, g) ==
    IF ~g.ok THEN ArrError(0, 0, st, g.rest, d)
    ELSE IF g.val = FromNat(SUBCMD_ARRAY_SIZE)
    THEN ArrAckValue(SUBCMD_ARRAY_SIZE, 0, cmd, T_size, FromNat(d.max), st,
                     g.rest, d, d.oob)
    ELSE IF g.val = FromNat(SUBCMD_ARRAY_ELEMENT)
    THEN processSetArrayIndex(cmd, d, st, getValue(T_size, "avr", st, g.rest))
    ELSE IF g.val = FromNat(SUBCMD_ARRAY_FINISHED)
    THEN processSetArrayFinished(cmd, d, st,
                                 getValue(T_size, "avr", st, g.rest))
    ELSE ArrError(g.val.lo, 0, st, g.rest, d)

\* processSetArray<T>(cmd, pArr, maxSize, finalSize, afterSet)
processSetArray(cmd, d, st, wire) ==
    processSetArraySub(cmd, d, st, getValue(T_int, "avr", st, wire))

\* SUBCMD_ARRAY_ELEMENT with a SetArrayFn: ... && index < maxSize && goodArray
processSetArrayFnElement(cmd, d, st, good, index, ge) ==
    IF ge.ok /\ index < (IF good THEN d.max ELSE 0) /\ good
    THEN ArrAck(SUBCMD_ARRAY_ELEMENT, index, cmd, st, ge.rest,
                ArrPut(d.arr, index, ge.val), d.size,
                d.oob \/ index >= d.max)
    ELSE ArrError(SUBCMD_ARRAY_ELEMENT, index, st, ge.rest, d)

processSetArrayFnIndex(cmd, d, st, good, gi) ==
    IF gi.ok
    THEN processSetArrayFnElement(cmd, d, st, good, gi.val.lo,
                                  getValue(T_int, "avr", st, gi.rest))
    ELSE ArrError(SUBCMD_ARRAY_ELEMENT, 0, st, gi.rest, d)

\* SUBCMD_ARRAY_FINISHED with a SetArrayFn: the callback sets the length
\* when the array is good; the command is acknowledged when it is not
processSetArrayFnFinished(cmd, d, st, good, gf) ==
    IF gf.ok
    THEN ArrAck(SUBCMD_ARRAY_FINISHED, gf.val.lo, cmd, st, gf.rest, d.arr,
                IF good THEN gf.val.lo ELSE d.size, d.oob)
    ELSE ArrError(SUBCMD_ARRAY_FINISHED, 0, st, gf.rest, d)

processSetArrayFnSub(cmd, d, st, good, g) ==
    IF ~g.ok THEN ArrError(0, 0, st, g.rest, d)
    ELSE IF g.val = FromNat(SUBCMD_ARRAY_SIZE)
    THEN IF good
         THEN ArrAckValue(SUBCMD_ARRAY_SIZE, 0, cmd, T_size, FromNat(d.max),
                          st, g.rest, d, d.oob)
         ELSE ArrError(SUBCMD_ARRAY_SIZE, 0, st, g.rest, d)
    ELSE IF g.val = FromNat(SUBCMD_ARRAY_ELEMENT)
    THEN processSetArrayFnIndex(cmd, d, st, good,
                                getValue(T_size, "avr", st, g.rest))
    ELSE IF g.val = FromNat(SUBCMD_ARRAY_FINISHED)
    THEN processSetArrayFnFinished(cmd, d, st, good,
                                   getValue(T_size, "avr", st, g.rest))
    ELSE ArrError(g.val.lo, 0, st, g.rest, d)

\* processSetArray<T>(cmd, arrFn): the callback reports the buffer first
processSetArrayFn(cmd, d, st, wire) ==
    processSetArrayFnSub(cmd, d, st, d.handler.hook = "ok",
                         getValue(T_int, "avr", st, wire))

\* SUBCMD_ARRAY_ELEMENT of a get: getValue(index) && index < size [&& good]
processGetArrayElement(cmd, d, st, good, gi) ==
    IF gi.ok /\ gi.val.lo < d.size /\ good
    THEN ArrAckValue(SUBCMD_ARRAY_ELEMENT, gi.val.lo, cmd, T_int,
                     ArrGet(d.arr, gi.val.lo), st, gi.rest, d,
                     d.oob \/ gi.val.lo >= d.max)
    ELSE ArrError(SUBCMD_ARRAY_ELEMENT, IF gi.ok THEN gi.val.lo ELSE 0, st,
                  gi.rest, d)

\* startOk: the beforeGet task, or the callback told that the get starts;
\* good: the callback asked for the array in the middle of a get
processGetArraySub(cmd, d, st, startOk, good, g) ==
    IF ~g.ok THEN ArrError(0, 0, st, g.rest, d)
    ELSE IF g.val = FromNat(SUBCMD_ARRAY_STARTING)
    THEN IF startOk
         THEN ArrAck(SUBCMD_ARRAY_STARTING, 0, cmd, st, g.rest, d.arr,
                     d.size, d.oob)
         ELSE ArrError(SUBCMD_ARRAY_STARTING, 0, st, g.rest, d)
    ELSE IF g.val = FromNat(SUBCMD_ARRAY_SIZE)
    THEN IF good
         THEN ArrAckValue(SUBCMD_ARRAY_SIZE, 0, cmd, T_size, FromNat(d.size),
                          st, g.rest, d, d.oob)
         ELSE ArrError(SUBCMD_ARRAY_SIZE, 0, st, g.rest, d)
    ELSE IF g.val = FromNat(SUBCMD_ARRAY_ELEMENT)
    THEN processGetArrayElement(cmd, d, st, good,
                                getValue(T_size, "avr", st, g.rest))
    ELSE ArrError(g.val.lo, 0, st, g.rest, d)

\* processGetArray<T>(cmd, pArr, size, beforeGet)
processGetArray(cmd, d, st, wire) ==
    processGetArraySub(cmd, d, st, d.handler.hook # "fail", TRUE,
                       getValue(T_cmd, "avr", st, wire))

\* processGetArray<T>(cmd, arrFn)
processGetArrayFn(cmd, d, st, wire) ==
    processGetArraySub(cmd, d, st, d.handler.hook = "ok",
                       d.handler.hook = "ok",
                       getValue(T_cmd, "avr", st, wire))

\* ------------------------------------------------------------------------
\* Host threads and the stream lock
\* ------------------------------------------------------------------------

\* number of host threads
NumThreads == 2

\* number of calls each thread makes
MaxCalls == 2

Threads == 1..NumThreads

\* A call is the list of what it does to the lock and the wire, in order:
\*   "lock"     a StreamGuard is constructed
\*   "unlock"   the guard's scope ends
\*   "commit"   the second statement of unlockStream, after the unlock
\*   "temp"     a temporary StreamGuard: constructed and destroyed at once
\*   "xchg"     one dispatch exchange; a failure returns from the call
\*   "xchgAny"  one dispatch exchange whose failure does not return
\*   "check"    a test without I/O that may return from the call

\* RemotePropBase::OnExecute, by the action it serves
OnExecute(eAct) ==
    CASE eAct = "Cached" -> <<"lock", "unlock">>
      [] eAct \in {"BeforeGet", "AfterSet", "StartSequence", "StopSequence"} ->
             <<"lock", "xchg", "unlock">>
      [] eAct = "IsSequenceable" -> <<"lock", "xchgAny", "unlock">>
      [] eAct = "AfterLoadSequence" ->
             <<"lock", "xchgAny", "check", "lock", "check", "xchg", "unlock",
               "unlock">>

getRemoteArrayH == <<"lock", "xchg", "xchgAny", "unlock">>

putRemoteArrayH == <<"lock", "check", "xchgAny", "unlock">>

\* the read-only branch, or the settable branch after createDevicePropH
createRemotePropH == <<"check", "lock", "xchgAny", "unlock">>

\* RemoteSequenceableProp: the sequence methods call the helpers directly
startRemoteSequence == <<"xchg">>

stopRemoteSequence == <<"xchg">>

getRemoteSequenceSize == <<"xchgAny">>

setRemoteSequence == <<"xchgAny", "check", "lock", "check", "xchgAny", "unlock">>

\* tryStream: the guard, startProtocol, purgeComPort and its guard,
\* testProtocol, endProtocol
tryStream == <<"temp", "temp", "xchgAny">>

GuardedCalls ==
    {[name |-> "OnExecute", prog |-> OnExecute(a)] :
        a \in {"Cached", "BeforeGet", "AfterSet", "IsSequenceable",
               "AfterLoadSequence", "StartSequence", "StopSequence"}}
    \cup {[name |-> "getRemoteArrayH", prog |-> getRemoteArrayH],
          [name |-> "putRemoteArrayH", prog |-> putRemoteArrayH],
          [name |-> "createRemotePropH", prog |-> createRemotePropH]}

PublicCalls ==
    GuardedCalls
    \cup {[name |-> "startRemoteSequence", prog |-> startRemoteSequence],
          [name |-> "stopRemoteSequence", prog |-> stopRemoteSequence],
          [name |-> "getRemoteSequenceSize", prog |-> getRemoteSequenceSize],
          [name |-> "setRemoteSequence", prog |-> setRemoteSequence],
          [name |-> "tryStream", prog |-> tryStream]}

\* nx: the exchanges the call has performed; lx: those since the thread's
\* last lockStream
ThreadIdle ==
    [call |-> "none", prog |-> <<>>, held |-> 0, inx |-> FALSE, n |-> 0,
     returned |-> FALSE, nx |-> 0, lx |-> 0]

\* the lock lock_ of the session, with the session's log: protoLogStream_
\* (stream) and lastProtoLog_ (last), as lists of the exchanges logged
LockFree == [owner |-> 0, depth |-> 0, stream |-> <<>>, last |-> <<>>]

\* the log entry of an exchange of call number n of thread t
LogEntry(t, n) == [t |-> t, n |-> n]

\* the instruction a thread is at
Instr(t) == IF thr[t].prog = <<>> THEN "none" ELSE Head(thr[t].prog)

UnwindNone(held) == <<>>

\* the destructors of the guards in scope, which run on a return
Unwind(held) == [i \in 1..held |-> "unlock"]

\* what is left of the call after an instruction
Rest(t, returns) ==
    IF returns THEN Unwind(thr[t].held) ELSE Tail(thr[t].prog)

Continue(t, rest, held, inx) ==
    thr' = [thr EXCEPT ![t].prog = rest, ![t].held = held, ![t].inx = inx,
                       ![t].returned = (rest = <<>>),
                       ![t].lx = IF Instr(t) = "lock" THEN 0 ELSE @]

\* a thread enters a public entry point
Call(t) ==
    /\ thr[t].prog = <<>>
    /\ thr[t].n < MaxCalls
    /\ \E c \in PublicCalls :
         thr' = [thr EXCEPT ![t] = [call |-> c.name, prog |-> c.prog,
                                    held |-> 0, inx |-> FALSE,
                                    n |-> thr[t].n + 1, returned |-> FALSE,
                                    nx |-> 0, lx |-> 0]]
    /\ UNCHANGED <<lock, codec, protoVars>>

\* a lock that its owner cannot take a second time
AcquireNotReentrant(t) ==
    /\ Instr(t) = "lock"
    /\ lock.owner = 0
    /\ lock' = [owner |-> t, depth |-> lock.depth + 1, stream |-> <<>>,
                last |-> lock.last]
    /\ Continue(t, Tail(thr[t].prog), thr[t].held + 1, FALSE)
    /\ UNCHANGED <<codec, protoVars>>

\* StreamGuard(): lockStream, MMThreadLock::Lock, which the owner may
\* repeat, then protoLogStream_.str("")
Acquire(t) ==
    /\ Instr(t) = "lock"
    /\ lock.owner \in {0, t}
    /\ lock' = [owner |-> t, depth |-> lock.depth + 1, stream |-> <<>>,
                last |-> lock.last]
    /\ Continue(t, Tail(thr[t].prog), thr[t].held + 1, FALSE)
    /\ UNCHANGED <<codec, protoVars>>

\* ~StreamGuard(): unlockStream begins with MMThreadLock::Unlock; the copy
\* of the log is its next statement
Release(t) ==
    /\ Instr(t) = "unlock"
    /\ lock' = [owner |-> IF lock.depth = 1 THEN 0 ELSE lock.owner,
                depth |-> lock.depth - 1, stream |-> lock.stream,
                last |-> lock.last]
    /\ Continue(t, <<"commit">> \o Tail(thr[t].prog), thr[t].held - 1, FALSE)
    /\ UNCHANGED <<codec, protoVars>>

\* unlockStream after the unlock: lastProtoLog_ = protoLogStream_.str()
Commit(t) ==
    /\ Instr(t) = "commit"
    /\ lock' = [lock EXCEPT !.last = lock.stream]
    /\ Continue(t, Tail(thr[t].prog), thr[t].held, FALSE)
    /\ UNCHANGED <<codec, protoVars>>

\* BaseClass::StreamGuard(this); the temporary locks and unlocks
Temporary(t) ==
    /\ Instr(t) = "temp"
    /\ lock.owner \in {0, t}
    /\ lock' = [lock EXCEPT !.stream = <<>>, !.last = <<>>]
    /\ Continue(t, Tail(thr[t].prog), thr[t].held, FALSE)
    /\ UNCHANGED <<codec, protoVars>>

\* the first byte of an exchange goes out; writeBuffer and the reads of the
\* exchange append to protoLogStream_
ExchangeBegin(t) ==
    /\ Instr(t) \in {"xchg", "xchgAny"}
    /\ ~thr[t].inx
    /\ thr' = [thr EXCEPT ![t].inx = TRUE, ![t].nx = @ + 1, ![t].lx = @ + 1]
    /\ lock' = [lock EXCEPT !.stream = Append(@, LogEntry(t, thr[t].n))]
    /\ UNCHANGED <<codec, protoVars>>

\* the exchange ends, with success or failure
ExchangeEnd(t) ==
    /\ Instr(t) \in {"xchg", "xchgAny"}
    /\ thr[t].inx
    /\ \E ok \in BOOLEAN :
         Continue(t, Rest(t, ~ok /\ Instr(t) = "xchg"), thr[t].held, FALSE)
    /\ UNCHANGED <<lock, codec, protoVars>>

\* a test that lets the call go on or makes it return
Check(t) ==
    /\ Instr(t) = "check"
    /\ \E pass \in BOOLEAN :
         Continue(t, Rest(t, ~pass), thr[t].held, FALSE)
    /\ UNCHANGED <<lock, codec, protoVars>>

\* the steps of a call in progress
Run(t) ==
    \/ Acquire(t)
    \/ Release(t)
    \/ Commit(t)
    \/ Temporary(t)
    \/ ExchangeBegin(t)
    \/ ExchangeEnd(t)
    \/ Check(t)

\* ------------------------------------------------------------------------
\* Protocol specification: one initiator, one responder, two wires
\* ------------------------------------------------------------------------

\* number of dispatch operations the initiator starts
MaxOps == 2

\* the command bytes of the device: 'S' carries a long, 'F' a float, 'M'
\* (set) and 'O' (get) an int
Cmds == {83, 70, 77, 79}

CmdType(cmd) ==
    IF cmd = 70 THEN T_float
    ELSE IF cmd \in {77, 79} THEN T_int
    ELSE T_long

\* the device's variable behind a command, as constructed
DevValue(cmd) ==
    IF cmd = 70 THEN FloatOne
    ELSE IF cmd \in {77, 79} THEN FromInt(31)
    ELSE FromInt(0 - 1)

\* the device's string, and the size of its string buffer
DevString == <<97>>

DevBufSize == 4

\* the shapes of handler a device registers, with the outcome of the
\* device's own callback (before/after task, value function)
Handlers ==
    [kind : {"task", "setFn", "getFn", "getStringFn"}, hook : {"ok", "fail"}]
    \cup [kind : {"set", "get", "setString", "getString"},
          hook : {"none", "fail"}]

\* doProcessCommand: the handler of the device applied to a command
Handle(h, cmd, st, wire) ==
    CASE h.kind = "task" -> processTask(cmd, h.hook = "ok", st, wire)
      [] h.kind = "set" -> processSet(cmd, CmdType(cmd), h.hook, st, wire)
      [] h.kind = "setFn" ->
             processSetFn(cmd, CmdType(cmd), h.hook = "ok", st, wire)
      [] h.kind = "get" ->
             processGet(cmd, CmdType(cmd), DevValue(cmd), h.hook, st, wire)
      [] h.kind = "getFn" ->
             processGetFn(cmd, CmdType(cmd), DevValue(cmd), h.hook = "ok",
                          st, wire)
      [] h.kind = "setString" ->
             processSetString(cmd, DevBufSize, h.hook, st, wire)
      [] h.kind = "getString" ->
             processGetString(cmd, DevString, h.hook, st, wire)
      [] h.kind = "getStringFn" ->
             processGetStringFn(cmd, DevString, h.hook = "ok", st, wire)

\* a dispatch operation and its arguments
Op(name, cmd, val, size) ==
    [name |-> name, cmd |-> cmd, T |-> CmdType(cmd), val |-> val,
     size |-> size]

\* the operations the host calls, by the kind of value they carry
WordOps ==
    {Op("dispatchTask", c, W(0, 0), 0) : c \in {83, 70}}
    \cup {Op("dispatchGet", c, W(0, 0), 0) : c \in {83, 70, 79}}
    \cup {Op("dispatchSet", 83, v, 0) : v \in {FromInt(0 - 1), FromInt(26)}}
    \cup {Op("dispatchSet", 77, FromInt(31), 0)}
    \cup {Op("dispatchGetString", 83, W(0, 0), DevBufSize)}

FloatOps == {Op("dispatchSet", 70, FloatOne, 0)}

StringOps == {Op("dispatchSetString", 83, str, 0) : str \in {<<>>, <<97>>}}

StepsGetNoValue(op) ==
    CASE op.name = "dispatchGet" -> <<"putCommand", "checkReply">>
      [] op.name = "dispatchTask" -> <<"putCommand", "checkReply">>
      [] op.name = "dispatchGetString" ->
             <<"putCommand", "getString", "checkReply">>
      [] op.name = "dispatchSet" -> <<"putCommand", "putValue", "checkReply">>
      [] op.name = "dispatchSetString" ->
             <<"putCommand", "putString", "checkReply">>
      [] OTHER -> <<>>

\* the steps of each dispatch operation, left to right
Steps(op) ==
    CASE op.name = "dispatchTask" -> <<"putCommand", "checkReply">>
      [] op.name = "dispatchGet" -> <<"putCommand", "checkReply", "getValue">>
      [] op.name = "dispatchGetString" ->
             <<"putCommand", "getString", "checkReply">>
      [] op.name = "dispatchSet" -> <<"putCommand", "putValue", "checkReply">>
      [] op.name = "dispatchSetString" ->
             <<"putCommand", "putString", "checkReply">>
      [] OTHER -> <<>>

WriteSteps == {"putCommand", "putValue", "putString"}

HostIdle ==
    [pc |-> "idle", op |-> Op("none", 0, W(0, 0), 0), step |-> 0,
     ok |-> FALSE, trace |-> <<>>, sent |-> <<>>, got |-> W(0, 0),
     st |-> FALSE, n |-> 0, terms |-> 0]

DevBlank(h) ==
    [handler |-> h, handled |-> FALSE,
     last |-> [cmd |-> 0, out |-> <<>>, replies |-> <<>>, ok |-> FALSE],
     arg |-> NoArg]

\* the step the initiator is at
CurStep == Steps(host.op)[host.step]

HostAdvanceAlways(ok, last) == IF ~last THEN "run" ELSE "done"

\* a && b && ...: the next step runs only when this one succeeded
HostAdvance(ok, last) == IF ok /\ ~last THEN "run" ELSE "done"

\* the initiator after a step with result ok that touched the transport (io)
HostAfter(ok, io, got, out) ==
    [host EXCEPT !.trace = Append(@, [step |-> host.step, ok |-> ok, io |-> io]),
                 !.got = got,
                 !.sent = @ \o out,
                 !.ok = ok,
                 !.pc = HostAdvance(ok, host.step = Len(Steps(host.op))),
                 !.step = @ + 1]

HostBegun(op) ==
    host' = [HostIdle EXCEPT !.pc = "run", !.op = op, !.step = 1,
                             !.st = started.host, !.n = host.n + 1]

\* a dispatchXXX call begins
HostBegin ==
    /\ host.pc \in {"idle", "done"}
    /\ host.n < MaxOps
    /\ \/ \E op \in WordOps : HostBegun(op)
       \/ \E op \in FloatOps : HostBegun(op)
       \/ \E op \in StringOps : HostBegun(op)
    /\ UNCHANGED <<thr, lock, codec, started, h2s, s2h, dev>>

StepWrite(kind, op, st, portOk1, portOk2) ==
    CASE kind = "putCommand" -> putCommand(op.cmd, st, portOk1)
      [] kind = "putValue" -> putValue(op.T, op.val, st, portOk1)
      [] kind = "putString" -> putString(op.val, st, portOk1, portOk2)

HostWrote(w) ==
    /\ h2s' = h2s \o w.out
    /\ host' = HostAfter(w.ok, w.io, host.got, w.out)

\* the initiator runs a step that writes
HostWrite ==
    /\ host.pc = "run"
    /\ CurStep \in WriteSteps
    /\ \E portOk1, portOk2 \in BOOLEAN :
         HostWrote(StepWrite(CurStep, host.op, started.host, portOk1, portOk2))
    /\ UNCHANGED <<thr, lock, codec, started, s2h, dev>>

ReadOf(r, val) == [ok |-> r.ok, rest |-> r.rest, io |-> r.io, val |-> val]

ReadOfValue(r) == ReadOf(r, r.val)

ReadOfString(r) == ReadOf(r, BufStr(r.buf))

StepRead(kind, op, st, wire) ==
    CASE kind = "checkReply" ->
             ReadOf(checkReply(op.cmd, "host", st, wire), host.got)
      [] kind = "getValue" -> ReadOfValue(getValue(op.T, "host", st, wire))
      [] kind = "getString" ->
             ReadOfString(getString("host", st, wire, FreshBuf(op.size),
                                    op.size))

\* the number of terminators among bytes
TermsIn(bytes) ==
    Cardinality({k \in 1..Len(bytes) : bytes[k] = PROT_TERM_CHAR})

\* the read took the bytes of s2h before r.rest; host.terms counts the
\* terminators the operation has consumed
HostReadDone(r) ==
    /\ s2h' = r.rest
    /\ host' = [HostAfter(r.ok, r.io, r.val, <<>>) EXCEPT
                  !.terms = @ + TermsIn(s2h) - TermsIn(r.rest)]

\* the initiator runs a step that reads: the answer has arrived, or the
\* responder has nothing left to answer and the read times out
HostRead ==
    /\ host.pc = "run"
    /\ CurStep \notin WriteSteps
    /\ \/ ~started.host
       \/ TermPos(s2h) # 0
       \/ ~hasCommand(started.avr, h2s)
    /\ HostReadDone(StepRead(CurStep, host.op, started.host, s2h))
    /\ UNCHANGED <<thr, lock, codec, started, h2s, dev>>

DevRan(cmd, r) ==
    /\ h2s' = r.rest
    /\ s2h' = s2h \o r.out
    /\ dev' = [dev EXCEPT !.handled = TRUE,
                          !.last = [cmd |-> cmd, out |-> r.out,
                                    replies |-> r.replies, ok |-> r.ok],
                          !.arg = r.arg]

DevDispatch(g) ==
    IF g.cmd \in Cmds
    THEN DevRan(g.cmd, Handle(dev.handler, g.cmd, started.avr, g.rest))
    ELSE /\ h2s' = g.rest
         /\ s2h' = s2h \o replyError(started.avr, TRUE).out
         /\ dev' = dev

\* loop(): when a command byte is waiting, it is read and dispatched; the
\* initiator is not in the middle of writing the command's arguments
DevProcess ==
    /\ hasCommand(started.avr, h2s)
    /\ host.pc = "run" => CurStep \notin WriteSteps
    /\ DevDispatch(getCommand(started.avr, h2s))
    /\ UNCHANGED <<thr, lock, codec, started, host>>

\* startProtocol on the host, between operations
HostStart ==
    /\ host.pc # "run"
    /\ ~started.host
    /\ started' = [started EXCEPT !.host = TRUE]
    /\ UNCHANGED <<thr, lock, codec, h2s, s2h, host, dev>>

\* endProtocol on the host, between operations
HostEnd ==
    /\ host.pc # "run"
    /\ started.host
    /\ started' = [started EXCEPT !.host = FALSE]
    /\ UNCHANGED <<thr, lock, codec, h2s, s2h, host, dev>>

\* startProtocol on the AVR
DevStart ==
    /\ ~started.avr
    /\ started' = [started EXCEPT !.avr = TRUE]
    /\ UNCHANGED <<thr, lock, codec, h2s, s2h, host, dev>>

\* endProtocol on the AVR
DevEnd ==
    /\ started.avr
    /\ started' = [started EXCEPT !.avr = FALSE]
    /\ UNCHANGED <<thr, lock, codec, h2s, s2h, host, dev>>

ProtoInit ==
    /\ thr = [t \in Threads |-> ThreadIdle]
    /\ lock = LockFree
    /\ codec = CodecBlank
    /\ started = [host |-> FALSE, avr |-> FALSE]
    /\ h2s = <<>>
    /\ s2h = <<>>
    /\ host = HostIdle
    /\ dev \in {DevBlank(h) : h \in Handlers}

ProtoNext ==
    \/ HostBegin
    \/ HostWrite
    \/ HostRead
    \/ DevProcess
    \/ HostStart
    \/ HostEnd
    \/ DevStart
    \/ DevEnd

Spec == ProtoInit /\ [][ProtoNext]_vars

\* ------------------------------------------------------------------------
\* Matched exchanges over a link that loses nothing
\* ------------------------------------------------------------------------

\* the handlers whose callback succeeds
LiveHandlers ==
    [kind : {"task", "setFn", "getFn"}, hook : {"ok"}]
    \cup [kind : {"set", "get", "setString"}, hook : {"none"}]

\* the operations the initiator calls on a handler of kind k
LiveOps(k) ==
    CASE k = "task" -> {Op("dispatchTask", c, W(0, 0), 0) : c \in {83, 70}}
      [] k \in {"get", "getFn"} ->
             {Op("dispatchGet", c, W(0, 0), 0) : c \in {83, 70, 79}}
      [] k \in {"set", "setFn"} ->
             {Op("dispatchSet", 83, v, 0) :
                  v \in {FromInt(0 - 1), FromInt(26), W(32768, 0)}}
             \cup {Op("dispatchSet", 77, FromInt(31), 0)}
             \cup {Op("dispatchSet", 70, FloatOne, 0)}
      [] k = "setString" -> {Op("dispatchSetString", 83, <<97>>, 0)}

\* a dispatchXXX call begins on the handler that matches it
LiveBegin ==
    /\ host.pc \in {"idle", "done"}
    /\ host.n < MaxOps
    /\ \E op \in LiveOps(dev.handler.kind) : HostBegun(op)
    /\ UNCHANGED <<thr, lock, codec, started, h2s, s2h, dev>>

\* the initiator runs a step that writes, on a port that works
LiveWrite ==
    /\ host.pc = "run"
    /\ CurStep \in WriteSteps
    /\ HostWrote(StepWrite(CurStep, host.op, started.host, TRUE, TRUE))
    /\ UNCHANGED <<thr, lock, codec, started, s2h, dev>>

LiveInit ==
    /\ thr = [t \in Threads |-> ThreadIdle]
    /\ lock = LockFree
    /\ codec = CodecBlank
    /\ started = [host |-> TRUE, avr |-> TRUE]
    /\ h2s = <<>>
    /\ s2h = <<>>
    /\ host = HostIdle
    /\ dev \in {DevBlank(h) : h \in LiveHandlers}

LiveNext ==
    \/ LiveBegin
    \/ LiveWrite
    \/ HostRead
    \/ DevProcess

\* the states in which each step can be taken
LiveWriteReady == host.pc = "run" /\ CurStep \in WriteSteps

HostReadReady ==
    /\ host.pc = "run"
    /\ CurStep \notin WriteSteps
    /\ \/ ~started.host
       \/ TermPos(s2h) # 0
       \/ ~hasCommand(started.avr, h2s)

DevProcessReady ==
    /\ hasCommand(started.avr, h2s)
    /\ host.pc = "run" => CurStep \notin WriteSteps

\* both ends keep running: a blocking write or read returns, and loop()
\* is called again.  Each conjunct is the weak fairness WF_vars(A) of a
\* step A, written out with the states in which A can be taken.
LiveSpec ==
    /\ LiveInit
    /\ [][LiveNext]_vars
    /\ ([]<>(~LiveWriteReady) \/ []<><<LiveWrite>>_vars)
    /\ ([]<>(~HostReadReady) \/ []<><<HostRead>>_vars)
    /\ ([]<>(~DevProcessReady) \/ []<><<DevProcess>>_vars)

CodecInit ==
    /\ thr = [t \in Threads |-> ThreadIdle]
    /\ lock = LockFree
    /\ codec = CodecBlank
    /\ started = [host |-> FALSE, avr |-> FALSE]
    /\ h2s = <<>>
    /\ s2h = <<>>
    /\ host = HostIdle
    /\ dev = DevBlank([kind |-> "task", hook |-> "ok"])

CodecSpec == CodecInit /\ [][CodecNext]_vars

\* ------------------------------------------------------------------------
\* Array specification: the initiator's array operations and the
\* responder's array handlers over the two wires
\* ------------------------------------------------------------------------

\* number of array operations the initiator starts
MaxArrayOps == 2

\* length of the longest array the initiator sends
MaxArrayLen == 4

\* the command bytes of the device's array: 'M' sets it, 'O' gets it
ArrSetCmd == 77

ArrGetCmd == 79

\* the elements the initiator sends: 100, 110, 120, 130, ...
Element(k) == FromInt(90 + 10 * k)

ArrayOf(len) == [k \in 1..len |-> Element(k)]

\* an array operation of the host: the array to send (data), the size of
\* the caller's receive buffer (cap), the index of a single element (idx)
ArrOp(name, cmd, data, cap, idx) ==
    [name |-> name, cmd |-> cmd, data |-> data, cap |-> cap, idx |-> idx]

\* the operations the host calls; setElement and getElement are one
\* element exchange at an index of the sender's choice
ArrayOps ==
    {ArrOp("dispatchSetArray", ArrSetCmd, ArrayOf(len), 0, 0) :
         len \in {0, 1, MaxArrayLen - 1, MaxArrayLen}}
    \cup {ArrOp("dispatchGetArray", ArrGetCmd, <<>>, cap, 0) :
              cap \in {1, MaxArrayLen}}
    \cup {ArrOp("getRemoteArrayH", ArrGetCmd, <<>>, 0, 0)}
    \cup {ArrOp("setElement", ArrSetCmd, <<FromInt(9)>>, 0, idx) :
              idx \in {1, 5}}
    \cup {ArrOp("getElement", ArrGetCmd, <<>>, 0, idx) : idx \in {1, 5}}

\* the devices: the buffer version of the handlers or the callback
\* version, the outcome of the device's task or callback, the capacity
ArrayDevs == [kind : {"buf", "fn"}, hook : {"ok", "fail"}, max : {2, 256}]

ArrHostIdle ==
    [pc |-> "idle", op |-> ArrOp("none", 0, <<>>, 0, 0), phase |-> "none",
     i |-> 0, cap |-> 0, size |-> 0, ok |-> FALSE, sent |-> <<>>,
     exch |-> <<>>, got |-> <<>>, reads |-> 0, per |-> <<>>, n |-> 0]

\* the device's array as constructed: two elements, 7 and 8
ArrInitial == [j \in {0, 1} |-> FromInt(7 + j)]

ArrDevBlank(h) ==
    [handler |-> [kind |-> h.kind, hook |-> h.hook], max |-> h.max,
     arr |-> ArrInitial, size |-> Len(<<7, 8>>), oob |-> FALSE,
     handled |-> FALSE,
     last |-> [cmd |-> 0, sub |-> 0, idx |-> 0, out |-> <<>>,
               replies |-> <<>>, ok |-> FALSE]]

\* the first exchange of an operation
ArrFirstPhase(op) ==
    CASE op.name = "dispatchSetArray" -> "size"
      [] op.name = "dispatchGetArray" -> "start"
      [] op.name = "getRemoteArrayH" -> "presize"
      [] OTHER -> "elem"

ArrIsSet(op) == op.name \in {"dispatchSetArray", "setElement"}

\* the sub-command of an exchange
ArrSub(phase) ==
    CASE phase \in {"size", "presize"} -> SUBCMD_ARRAY_SIZE
      [] phase = "start" -> SUBCMD_ARRAY_STARTING
      [] phase = "elem" -> SUBCMD_ARRAY_ELEMENT
      [] phase = "fin" -> SUBCMD_ARRAY_FINISHED

APut(T, val) == [T |-> T, val |-> val]

\* the element sent at index i
ArrElementAt(op, i) ==
    IF op.name = "setElement" THEN op.data[1] ELSE op.data[i + 1]

\* the values an exchange writes after the command byte
ArrPuts(op, phase, i) ==
    CASE phase \in {"size", "presize", "start"} ->
             <<APut(T_cmd, FromNat(ArrSub(phase)))>>
      [] phase = "elem" /\ ArrIsSet(op) ->
             <<APut(T_cmd, FromNat(SUBCMD_ARRAY_ELEMENT)),
               APut(T_size, FromNat(i)), APut(T_int, ArrElementAt(op, i))>>
      [] phase = "elem" /\ ~ArrIsSet(op) ->
             <<APut(T_cmd, FromNat(SUBCMD_ARRAY_ELEMENT)),
               APut(T_size, FromNat(i))>>
      [] phase = "fin" ->
             <<APut(T_cmd, FromNat(SUBCMD_ARRAY_FINISHED)),
               APut(T_size, FromNat(Len(op.data)))>>

\* putValue(p1) && putValue(p2) && ...; the port fails at write number fail
RECURSIVE ArrPutAll(_, _, _, _)
ArrPutAll(puts, j, fail, st) ==
    IF j > Len(puts) THEN PutResult(TRUE, <<>>, FALSE)
    ELSE AndThen(putValue(puts[j].T, puts[j].val, st, fail # j + 1),
                 ArrPutAll(puts, j + 1, fail, st))

\* putCommand(cmd) && putValue<prot_cmd_t>(sub) && ...
ArrWrite(cmd, puts, fail, st) ==
    AndThen(putCommand(cmd, st, fail # 1), ArrPutAll(puts, 1, fail, st))

\* whether an exchange reads a value after the reply
ArrReadsValue(op, phase) ==
    phase \in {"size", "presize"} \/ (phase = "elem" /\ ~ArrIsSet(op))

ArrReadType(phase) == IF phase = "elem" THEN T_int ELSE T_size

\* the result of the reads of an exchange: success, the value, what is left
\* of the wire, the number of reads that found a terminated value
ARead(ok, val, rest, reads) ==
    [ok |-> ok, val |-> val, rest |-> rest, reads |-> reads]

ArrReadValue(r1, r2) == ARead(r2.ok, r2.val, r2.rest, IF r2.ok THEN 2 ELSE 1)

\* checkReply(cmd) [&& getValue(val)]
ArrReadAfter(r1, withValue, T, st, term1) ==
    IF r1.ok /\ withValue
    THEN ArrReadValue(r1, getValue(T, "host", st, r1.rest))
    ELSE ARead(r1.ok, W(0, 0), r1.rest, IF term1 THEN 1 ELSE 0)

ArrReadReplyOnly(cmd, withValue, T, st, wire) ==
    ArrReadAfter(checkReply(cmd, "host", st, wire), FALSE, T, st,
                 TermPos(wire) # 0)

ArrRead(cmd, withValue, T, st, wire) ==
    ArrReadAfter(checkReply(cmd, "host", st, wire), withValue, T, st,
                 TermPos(wire) # 0)

\* where an operation goes after an exchange that succeeded and read val:
\* the next exchange, or the return value
AStep(phase, i, done, ok) == [phase |-> phase, i |-> i, done |-> done, ok |-> ok]

ArrElemsFrom(i, len, last) ==
    IF i < len THEN AStep("elem", i, FALSE, FALSE) ELSE last

dispatchSetArrayNoFinish(op, phase, i, val) ==
    CASE phase = "size" ->
             IF Len(op.data) <= val
             THEN ArrElemsFrom(0, Len(op.data), AStep("none", 0, TRUE, TRUE))
             ELSE AStep("none", 0, TRUE, FALSE)
      [] phase = "elem" ->
             ArrElemsFrom(i + 1, Len(op.data), AStep("none", 0, TRUE, TRUE))
      [] phase = "fin" -> AStep("none", 0, TRUE, TRUE)

dispatchSetArrayNoSizeCheck(op, phase, i, val) ==
    CASE phase = "size" ->
             ArrElemsFrom(0, Len(op.data), AStep("fin", 0, FALSE, FALSE))
      [] phase = "elem" ->
             ArrElemsFrom(i + 1, Len(op.data), AStep("fin", 0, FALSE, FALSE))
      [] phase = "fin" -> AStep("none", 0, TRUE, TRUE)

\* dispatchSetArray: the size query and __size <= maxSize, the elements in
\* increasing order, the finalise exchange
dispatchSetArray(op, phase, i, val) ==
    CASE phase = "size" ->
             IF Len(op.data) <= val
             THEN ArrElemsFrom(0, Len(op.data), AStep("fin", 0, FALSE, FALSE))
             ELSE AStep("none", 0, TRUE, FALSE)
      [] phase = "elem" ->
             ArrElemsFrom(i + 1, Len(op.data), AStep("fin", 0, FALSE, FALSE))
      [] phase = "fin" -> AStep("none", 0, TRUE, TRUE)

dispatchGetArrayNoSizeCheck(cap, size, phase, i, val) ==
    CASE phase = "start" -> AStep("size", 0, FALSE, FALSE)
      [] phase = "size" ->
             ArrElemsFrom(0, val, AStep("none", 0, TRUE, TRUE))
      [] phase = "elem" ->
             ArrElemsFrom(i + 1, size, AStep("none", 0, TRUE, TRUE))

\* dispatchGetArray: the starting exchange, the size query and
\* __size <= __maxSize, the elements in increasing order
dispatchGetArray(cap, size, phase, i, val) ==
    CASE phase = "start" -> AStep("size", 0, FALSE, FALSE)
      [] phase = "size" ->
             IF val <= cap
             THEN ArrElemsFrom(0, val, AStep("none", 0, TRUE, TRUE))
             ELSE AStep("none", 0, TRUE, FALSE)
      [] phase = "elem" ->
             ArrElemsFrom(i + 1, size, AStep("none", 0, TRUE, TRUE))

\* getRemoteArrayH: dispatchGetArraySize, then dispatchGetArray into a
\* vector of that size
getRemoteArrayStep(cap, size, phase, i, val) ==
    IF phase = "presize" THEN AStep("start", 0, FALSE, FALSE)
    ELSE dispatchGetArray(cap, size, phase, i, val)

ArrAfter(op, cap, size, phase, i, val) ==
    CASE op.name = "dispatchSetArray" -> dispatchSetArray(op, phase, i, val)
      [] op.name = "dispatchGetArray" ->
             dispatchGetArray(cap, size, phase, i, val)
      [] op.name = "getRemoteArrayH" ->
             getRemoteArrayStep(cap, size, phase, i, val)
      [] OTHER -> AStep("none", 0, TRUE, TRUE)

\* a dispatch operation on an array begins
ArrBegin ==
    /\ host.pc \in {"idle", "done"}
    /\ host.n < MaxArrayOps
    /\ \E op \in ArrayOps :
         host' = [ArrHostIdle EXCEPT !.pc = "send", !.op = op,
                                     !.phase = ArrFirstPhase(op),
                                     !.i = op.idx, !.cap = op.cap,
                                     !.n = host.n + 1]
    /\ UNCHANGED <<thr, lock, codec, started, h2s, s2h, dev>>

ArrSent(w, subWritten) ==
    /\ h2s' = h2s \o w.out
    /\ host' = [host EXCEPT
                  !.sent = @ \o w.out,
                  !.exch = IF subWritten
                           THEN Append(@, [sub |-> ArrSub(host.phase),
                                           idx |-> host.i])
                           ELSE @,
                  !.pc = IF w.ok THEN "await" ELSE "done",
                  !.ok = FALSE]

\* the initiator writes the request of an exchange; the port may fail at
\* any one of its writes
ArrSend ==
    /\ host.pc = "send"
    /\ \E fail \in 0..(Len(ArrPuts(host.op, host.phase, host.i)) + 1) :
         ArrSent(ArrWrite(host.op.cmd, ArrPuts(host.op, host.phase, host.i),
                          fail, started.host),
                 fail = 0 \/ fail > 2)
    /\ UNCHANGED <<thr, lock, codec, started, s2h, dev>>

\* the caller's variables after an exchange that read val
ArrStored(h, phase, val) ==
    [h EXCEPT !.size = IF phase = "size" THEN val.lo ELSE @,
              !.cap = IF phase = "presize" THEN val.lo ELSE @,
              !.got = IF phase = "elem" /\ ~ArrIsSet(h.op)
                      THEN Append(@, [idx |-> h.i, val |-> val]) ELSE @]

ArrMoved(h, nx) ==
    [h EXCEPT !.phase = nx.phase, !.i = nx.i,
              !.pc = IF nx.done THEN "done" ELSE "send", !.ok = nx.ok]

ArrReceived(r) ==
    /\ s2h' = r.rest
    /\ host' =
         IF r.ok
         THEN ArrMoved(ArrStored([host EXCEPT !.reads = @ + r.reads,
                                              !.per = Append(@, r.reads)],
                                 host.phase, r.val),
                       ArrAfter(host.op, host.cap, host.size, host.phase,
                                host.i, r.val.lo))
         ELSE [host EXCEPT !.reads = @ + r.reads, !.per = Append(@, r.reads),
                           !.pc = "done", !.ok = FALSE]

\* the initiator reads the answer of an exchange: it has arrived, or the
\* responder has nothing left to answer and the read times out
ArrRecv ==
    /\ host.pc = "await"
    /\ TermPos(s2h) # 0 \/ ~hasCommand(started.avr, h2s)
    /\ ArrReceived(ArrRead(host.op.cmd, ArrReadsValue(host.op, host.phase),
                           ArrReadType(host.phase), started.host, s2h))
    /\ UNCHANGED <<thr, lock, codec, started, h2s, dev>>

\* doProcessCommand of the device: the set handler under 'M', the get
\* handler under 'O'
ArrHandle(d, cmd, st, wire) ==
    CASE cmd = ArrSetCmd /\ d.handler.kind = "buf" ->
             processSetArray(cmd, d, st, wire)
      [] cmd = ArrSetCmd /\ d.handler.kind = "fn" ->
             processSetArrayFn(cmd, d, st, wire)
      [] cmd = ArrGetCmd /\ d.handler.kind = "buf" ->
             processGetArray(cmd, d, st, wire)
      [] cmd = ArrGetCmd /\ d.handler.kind = "fn" ->
             processGetArrayFn(cmd, d, st, wire)
      [] OTHER -> ArrError(0, 0, st, wire, d)

ArrDevRan(cmd, r) ==
    /\ h2s' = r.rest
    /\ s2h' = s2h \o r.out
    /\ dev' = [dev EXCEPT !.arr = r.arr, !.size = r.size, !.oob = r.oob,
                          !.handled = TRUE,
                          !.last = [cmd |-> cmd, sub |-> r.sub, idx |-> r.idx,
                                    out |-> r.out, replies |-> r.replies,
                                    ok |-> r.ok]]

ArrDevDispatch(g) == ArrDevRan(g.cmd, ArrHandle(dev, g.cmd, started.avr, g.rest))

\* loop() of the device, between the requests of the initiator
ArrDevProcess ==
    /\ hasCommand(started.avr, h2s)
    /\ host.pc # "send"
    /\ ArrDevDispatch(getCommand(started.avr, h2s))
    /\ UNCHANGED <<thr, lock, codec, started, host>>

ArrayInit ==
    /\ thr = [t \in Threads |-> ThreadIdle]
    /\ lock = LockFree
    /\ codec = CodecBlank
    /\ started \in [host : {TRUE}, avr : BOOLEAN]
    /\ h2s = <<>>
    /\ s2h = <<>>
    /\ host = ArrHostIdle
    /\ dev \in {ArrDevBlank(h) : h \in ArrayDevs}

ArrayNext ==
    \/ ArrBegin
    \/ ArrSend
    \/ ArrRecv
    \/ ArrDevProcess

ArraySpec == ArrayInit /\ [][ArrayNext]_vars

\* ------------------------------------------------------------------------
\* Sub-command specification: the array handlers under any sub-command
\* ------------------------------------------------------------------------

\* the requests sent to the array handlers
MaxSubOps == 2

\* the sub-commands sent: those defined, 0, the first undefined one and
\* the largest prot_cmd_t
SubCommands == {0, SUBCMD_ARRAY_SIZE, SUBCMD_ARRAY_STARTING,
                SUBCMD_ARRAY_ELEMENT, SUBCMD_ARRAY_FINISHED, 5, 255}

\* what follows the sub-command: nothing, or an index or length and an
\* element
SubPayloads ==
    {<<>>,
     putValue(T_size, FromNat(1), TRUE, TRUE).out
         \o putValue(T_int, FromInt(9), TRUE, TRUE).out}

SubHostIdle == [pc |-> "idle", cmd |-> 0, sub |-> 0, ok |-> FALSE, n |-> 0]

\* putCommand(cmd) && putValue(sub) [&& putValue ...] on a port that works
SubSent(cmd, sub, payload) ==
    /\ h2s' = h2s \o putCommand(cmd, TRUE, TRUE).out
                  \o putValue(T_cmd, FromNat(sub), TRUE, TRUE).out \o payload
    /\ host' = [pc |-> "sent", cmd |-> cmd, sub |-> sub, ok |-> FALSE,
                n |-> host.n + 1]

\* the initiator sends a command of the array with a sub-command
SubSend ==
    /\ host.pc = "idle"
    /\ host.n < MaxSubOps
    /\ h2s = <<>>
    /\ \E cmd \in {ArrSetCmd, ArrGetCmd}, sub \in SubCommands,
          payload \in SubPayloads : SubSent(cmd, sub, payload)
    /\ UNCHANGED <<thr, lock, codec, started, s2h, dev>>

SubReceived(r) ==
    /\ s2h' = <<>>
    /\ host' = [host EXCEPT !.pc = "idle", !.ok = r.ok]

\* checkReply(cmd) once the responder is through with what was sent; what
\* else it answered is purged
SubRecv ==
    /\ host.pc = "sent"
    /\ ~hasCommand(started.avr, h2s)
    /\ SubReceived(checkReply(host.cmd, "host", TRUE, s2h))
    /\ UNCHANGED <<thr, lock, codec, started, h2s, dev>>

SubInit ==
    /\ thr = [t \in Threads |-> ThreadIdle]
    /\ lock = LockFree
    /\ codec = CodecBlank
    /\ started = [host |-> TRUE, avr |-> TRUE]
    /\ h2s = <<>>
    /\ s2h = <<>>
    /\ host = SubHostIdle
    /\ dev \in {ArrDevBlank(h) : h \in ArrayDevs}

SubNext ==
    \/ SubSend
    \/ SubRecv
    \/ ArrDevProcess

SubSpec == SubInit /\ [][SubNext]_vars

\* ------------------------------------------------------------------------
\* Detection specification: DeviceHexProtocol::tryStream
\* ------------------------------------------------------------------------

\* number of calls of tryStream
MaxTries == 2

\* g_SerialAnswerTimeout, in milliseconds
SerialAnswerTimeout == 500

\* the answer timeouts the port may have before a call
AnswerTimeouts == {SerialAnswerTimeout, 2000}

\* stream names: "", "undefined", "Unknown", "UNDEFINED", "COM3"
StreamNames ==
    {<<>>,
     <<117, 110, 100, 101, 102, 105, 110, 101, 100>>,
     <<85, 110, 107, 110, 111, 119, 110>>,
     <<85, 78, 68, 69, 70, 73, 78, 69, 68>>,
     <<67, 79, 77, 51>>}

\* ::tolower
tolower(c) == IF c >= 65 /\ c <= 90 THEN c + 32 ELSE c

\* std::transform(begin, end, begin, ::tolower)
streamLowerCase(stream) == [k \in 1..Len(stream) |-> tolower(stream[k])]

\* 0 < length && compare("undefined") != 0 && compare("unknown") != 0
IsStreamName(lower) ==
    /\ 0 < Len(lower)
    /\ lower # <<117, 110, 100, 101, 102, 105, 110, 101, 100>>
    /\ lower # <<117, 110, 107, 110, 111, 119, 110>>

\* a call of tryStream: where it is, its argument, its result, the
\* defaultAnswerTimeout it recorded, what testProtocol returned, the steps
\* it has performed, whether an exception was caught; before: the port's
\* answer timeout when the call began; changed: the call has set it
TryIdle(timeout) ==
    [pc |-> "idle", stream |-> <<>>, result |-> "none", saved |-> 0,
     ret |-> "none", steps |-> <<>>, threw |-> FALSE, timeout |-> timeout,
     before |-> timeout, changed |-> FALSE, n |-> 0]

TryStep(h, name, pc) == [h EXCEPT !.steps = Append(@, name), !.pc = pc]

\* an exception leaves the try block for the handler
TryThrown(h) == [h EXCEPT !.pc = "catch"]

\* tryStream is called: result = MM::Misconfigured
TryBegin ==
    /\ host.pc \in {"idle", "returned"}
    /\ host.n < MaxTries
    /\ \E stream \in StreamNames :
         host' = [TryIdle(host.timeout) EXCEPT
                    !.pc = "check", !.stream = stream,
                    !.result = "Misconfigured", !.n = host.n + 1]
    /\ UNCHANGED <<thr, lock, codec, started, h2s, s2h, dev>>

\* the test of the stream name; result = MM::CanNotCommunicate
TryCheck ==
    /\ host.pc = "check"
    /\ host' = IF IsStreamName(streamLowerCase(host.stream))
               THEN [host EXCEPT !.result = "CanNotCommunicate",
                                 !.pc = "configure"]
               ELSE [host EXCEPT !.pc = "returned"]
    /\ UNCHANGED <<thr, lock, codec, started, h2s, s2h, dev>>

\* the default answer timeout is recorded, the port is configured with
\* g_SerialAnswerTimeout and initialised; a callback of the core may throw
\* before or after the timeout is set
TryConfigure ==
    /\ host.pc = "configure"
    /\ \/ host' = TryThrown(host)
       \/ host' = TryThrown([host EXCEPT !.saved = host.timeout,
                                         !.timeout = SerialAnswerTimeout,
                                         !.changed = TRUE])
       \/ host' = TryStep([host EXCEPT !.saved = host.timeout,
                                       !.timeout = SerialAnswerTimeout,
                                       !.changed = TRUE],
                          "configure", "sleep")
    /\ UNCHANGED <<thr, lock, codec, started, h2s, s2h, dev>>

\* CDeviceUtils::SleepMs(2000)
TrySleep ==
    /\ host.pc = "sleep"
    /\ host' = TryStep(host, "wait", "start")
    /\ UNCHANGED <<thr, lock, codec, started, h2s, s2h, dev>>

\* startProtocol(__target, __stream)
TryStart ==
    /\ host.pc = "start"
    /\ started' = [started EXCEPT !.host = TRUE]
    /\ host' = TryStep(host, "startProtocol", "purge")
    /\ UNCHANGED <<thr, lock, codec, h2s, s2h, dev>>

\* purgeComPort(); the port may throw
TryPurge ==
    /\ host.pc = "purge"
    /\ \/ host' = TryThrown(host)
       \/ host' = TryStep(host, "purge", "test")
    /\ UNCHANGED <<thr, lock, codec, started, h2s, s2h, dev>>

\* ret = testProtocol(), the function of the derived class: it returns
\* DEVICE_OK or an error code, or throws
TryTest ==
    /\ host.pc = "test"
    /\ \/ host' = TryThrown(host)
       \/ \E ret \in {"DEVICE_OK", "ERR_COMMUNICATION"} :
            host' = TryStep([host EXCEPT
                               !.ret = ret,
                               !.result = IF ret = "DEVICE_OK"
                                          THEN "CanCommunicate" ELSE @],
                            "testProtocol", "end")
    /\ UNCHANGED <<thr, lock, codec, started, h2s, s2h, dev>>

\* endProtocol(), then pS->Shutdown(), which may throw
TryEnd ==
    /\ host.pc = "end"
    /\ started' = [started EXCEPT !.host = FALSE]
    /\ \/ host' = TryThrown(TryStep(host, "endProtocol", "catch"))
       \/ host' = TryStep(host, "endProtocol", "restore")
    /\ UNCHANGED <<thr, lock, codec, h2s, s2h, dev>>

\* the answer timeout is set back to defaultAnswerTimeout
TryRestore ==
    /\ host.pc = "restore"
    /\ host' = [host EXCEPT !.timeout = host.saved, !.pc = "returned"]
    /\ UNCHANGED <<thr, lock, codec, started, h2s, s2h, dev>>

\* catch (...): the exception is logged, and tryStream returns result
TryCatch ==
    /\ host.pc = "catch"
    /\ host' = [host EXCEPT !.threw = TRUE, !.pc = "returned"]
    /\ UNCHANGED <<thr, lock, codec, started, h2s, s2h, dev>>

TryInit ==
    /\ thr = [t \in Threads |-> ThreadIdle]
    /\ lock = LockFree
    /\ codec = CodecBlank
    /\ started = [host |-> FALSE, avr |-> FALSE]
    /\ h2s = <<>>
    /\ s2h = <<>>
    /\ host \in {TryIdle(timeout) : timeout \in AnswerTimeouts}
    /\ dev = DevBlank([kind |-> "task", hook |-> "ok"])

TryNext ==
    \/ TryBegin
    \/ TryCheck
    \/ TryConfigure
    \/ TrySleep
    \/ TryStart
    \/ TryPurge
    \/ TryTest
    \/ TryEnd
    \/ TryRestore
    \/ TryCatch

TrySpec == TryInit /\ [][TryNext]_vars

\* ------------------------------------------------------------------------
\* Channel specification: the channel variants of the operations
\* ------------------------------------------------------------------------

\* the channel operations one run of the initiator performs
MaxChannelOps == 2

\* the channels: the ends and the middle of prot_chan_t
Channels == {FromInt(c) : c \in {0 - 128, 0 - 1, 0, 1, 127}}

ChannelOpNames ==
    {"dispatchChannelTask", "dispatchChannelSet", "dispatchChannelSet2",
     "dispatchChannelSetString", "dispatchChannelGet", "dispatchChannelGet2",
     "dispatchChannelGetString", "dispatchChannelSetArray",
     "dispatchChannelGetArray"}

\* a channel operation on the int command 'M'; the arrays have one element
ChannelOps ==
    [name : ChannelOpNames, cmd : {ArrSetCmd}, chan : Channels]

\* the number of exchanges of an operation: an array of one element takes
\* three
ChanExchanges(op) ==
    IF op.name \in {"dispatchChannelSetArray", "dispatchChannelGetArray"}
    THEN 3 ELSE 1

\* putChannelCommand: the command byte, then the channel as a value
putChannelCommand(cmd, chan, st, portOk1, portOk2) ==
    AndThen(putCommand(cmd, st, portOk1), putValue(T_chan, chan, st, portOk2))

\* the sub-command of exchange x of dispatchChannelSetArray (size, element,
\* finished) and of dispatchChannelGetArray (starting, size, element)
ChanSub(op, x) ==
    IF op.name = "dispatchChannelSetArray"
    THEN <<SUBCMD_ARRAY_SIZE, SUBCMD_ARRAY_ELEMENT, SUBCMD_ARRAY_FINISHED>>[x]
    ELSE <<SUBCMD_ARRAY_STARTING, SUBCMD_ARRAY_SIZE, SUBCMD_ARRAY_ELEMENT>>[x]

\* the values exchange x of an operation writes after the channel
ChanPuts(op, x) ==
    CASE op.name = "dispatchChannelSet" -> <<APut(T_int, DevValue(op.cmd))>>
      [] op.name = "dispatchChannelSet2" ->
             <<APut(T_int, DevValue(op.cmd)), APut(T_int, FromInt(26))>>
      [] op.name = "dispatchChannelSetArray" /\ x = 1 ->
             <<APut(T_cmd, FromNat(SUBCMD_ARRAY_SIZE))>>
      [] op.name = "dispatchChannelSetArray" /\ x = 2 ->
             <<APut(T_cmd, FromNat(SUBCMD_ARRAY_ELEMENT)),
               APut(T_size, FromNat(0)), APut(T_int, Element(1))>>
      [] op.name = "dispatchChannelSetArray" /\ x = 3 ->
             <<APut(T_cmd, FromNat(SUBCMD_ARRAY_FINISHED)),
               APut(T_size, FromNat(1))>>
      [] op.name = "dispatchChannelGetArray" /\ x = 3 ->
             <<APut(T_cmd, FromNat(SUBCMD_ARRAY_ELEMENT)),
               APut(T_size, FromNat(0))>>
      [] op.name = "dispatchChannelGetArray" ->
             <<APut(T_cmd, FromNat(ChanSub(op, x)))>>
      [] OTHER -> <<>>

\* putChannelCommand(cmd, chan) && putValue(...) && ..., or && putString(str);
\* the port fails at write number fail
ChanWrite(op, x, fail, st) ==
    AndThen(putChannelCommand(op.cmd, op.chan, st, fail # 1, fail # 2),
            IF op.name = "dispatchChannelSetString"
            THEN putString(DevString, st, fail # 3, fail # 4)
            ELSE ArrPutAll(ChanPuts(op, x), 1, fail - 1, st))

\* what a channel handler did: whether it invoked the callback, whether the
\* callback takes a channel and the channel variable of the handler, what
\* the handler wrote, what is left of the wire
ChanHandled(called, withChan, chan, w, rest) ==
    [called |-> called, withChan |-> withChan, chan |-> chan, ok |-> w.ok,
     out |-> w.out, rest |-> rest]

\* return reply(cmd) [&& putValue(...) ...] when the test held, return
\* replyError() otherwise
ChanReply(cmd, good, puts, st) ==
    IF good THEN AndThen(reply(cmd, st, TRUE), ArrPutAll(puts, 1, 0, st))
    ELSE replyError(st, TRUE)

\* test(getValue<prot_chan_t>(chan) && [reads &&] target_ && fn(...)): g is
\* the read of the channel, argsOk and rest the outcome of the reads after it
ChanCall(cmd, withChan, g, argsOk, rest, fnOk, puts, st) ==
    ChanHandled(g.ok /\ argsOk, withChan, g.val,
                ChanReply(cmd, g.ok /\ argsOk /\ fnOk, puts, st),
                IF g.ok THEN rest ELSE g.rest)

processChannelTask(cmd, fnOk, st, wire) ==
    LET g == getValue(T_chan, "avr", st, wire)
    IN  ChanCall(cmd, TRUE, g, TRUE, g.rest, fnOk, <<>>, st)

processChannelSet(cmd, T, fnOk, st, wire) ==
    LET g == getValue(T_chan, "avr", st, wire)
        t == getValue(T, "avr", st, g.rest)
    IN  ChanCall(cmd, TRUE, g, t.ok, t.rest, fnOk, <<>>, st)

processChannelSet2(cmd, T, U, fnOk, st, wire) ==
    LET g == getValue(T_chan, "avr", st, wire)
        t == getValue(T, "avr", st, g.rest)
        u == getValue(U, "avr", st, t.rest)
    IN  ChanCall(cmd, TRUE, g, t.ok /\ u.ok, IF t.ok THEN u.rest ELSE t.rest,
                 fnOk, <<>>, st)

processChannelGet(cmd, T, val, fnOk, st, wire) ==
    LET g == getValue(T_chan, "avr", st, wire)
    IN  ChanCall(cmd, TRUE, g, TRUE, g.rest, fnOk, <<APut(T, val)>>, st)

\* the handler takes a GetTwoValuesFn and calls it with (t_val, u_val)
processChannelGet2(cmd, T, U, t, u, fnOk, st, wire) ==
    LET g == getValue(T_chan, "avr", st, wire)
    IN  ChanCall(cmd, FALSE, g, TRUE, g.rest, fnOk,
                 <<APut(T, t), APut(U, u)>>, st)

\* the callback hands out the buffer, the string is read into it, the
\* callback is told the final size
processChannelSetString(cmd, size, fnOk, st, wire) ==
    LET g == getValue(T_chan, "avr", st, wire)
        s == getString("avr", st, g.rest, FreshBuf(size), size)
    IN  ChanHandled(g.ok, TRUE, g.val,
                    ChanReply(cmd, g.ok /\ fnOk /\ s.ok, <<>>, st),
                    IF g.ok /\ fnOk THEN s.rest ELSE g.rest)

processChannelGetString(cmd, str, fnOk, st, wire) ==
    LET g == getValue(T_chan, "avr", st, wire)
    IN  ChanHandled(g.ok, TRUE, g.val,
                    IF g.ok /\ fnOk
                    THEN AndThen(reply(cmd, st, TRUE),
                                 putString(str, st, TRUE, TRUE))
                    ELSE replyError(st, TRUE),
                    g.rest)

\* index < maxSize of a prot_size_t
ChanBelow(w, max) == w.hi = 0 /\ w.lo < max

\* the sub-commands of processChannelSetArray after the callback handed out
\* an array of maxSize elements (good) and subCmd was read (s)
processChannelSetArraySub(cmd, maxSize, good, st, s) ==
    LET i == getValue(T_size, "avr", st, s.rest)
        e == getValue(T_int, "avr", st, i.rest)
    IN  CASE ~s.ok -> [w |-> replyError(st, TRUE), rest |-> s.rest]
          [] s.ok /\ s.val = FromNat(SUBCMD_ARRAY_SIZE) ->
                 [w |-> ChanReply(cmd, good, <<APut(T_size, FromNat(maxSize))>>,
                                  st),
                  rest |-> s.rest]
          [] s.ok /\ s.val = FromNat(SUBCMD_ARRAY_ELEMENT) ->
                 [w |-> ChanReply(cmd, i.ok /\ e.ok /\ ChanBelow(i.val, maxSize)
                                       /\ good, <<>>, st),
                  rest |-> IF i.ok THEN e.rest ELSE i.rest]
          [] s.ok /\ s.val = FromNat(SUBCMD_ARRAY_FINISHED) ->
                 [w |-> ChanReply(cmd, i.ok, <<>>, st), rest |-> i.rest]
          [] OTHER -> [w |-> replyError(st, TRUE), rest |-> s.rest]

ChanArrayDone(g, r) ==
    ChanHandled(g.ok, TRUE, g.val, r.w, r.rest)

\* the callback is asked for the array with the channel that was read, then
\* the sub-command is read whether or not the channel was
processChannelSetArray(cmd, maxSize, fnOk, st, wire) ==
    LET g == getValue(T_chan, "avr", st, wire)
    IN  ChanArrayDone(g,
            processChannelSetArraySub(cmd, maxSize, g.ok /\ fnOk, st,
                                      getValue(T_int, "avr", st, g.rest)))

\* the sub-commands of processChannelGetArray; the callback is called with
\* the channel for each of them
processChannelGetArraySub(cmd, size, el, fnOk, st, s) ==
    LET i == getValue(T_size, "avr", st, s.rest)
    IN  CASE s.val = FromNat(SUBCMD_ARRAY_STARTING) ->
                 [w |-> ChanReply(cmd, fnOk, <<>>, st), rest |-> s.rest]
          [] s.val = FromNat(SUBCMD_ARRAY_SIZE) ->
                 [w |-> ChanReply(cmd, fnOk, <<APut(T_size, FromNat(size))>>,
                                  st),
                  rest |-> s.rest]
          [] s.val = FromNat(SUBCMD_ARRAY_ELEMENT) ->
                 [w |-> ChanReply(cmd, i.ok /\ ChanBelow(i.val, size) /\ fnOk,
                                  <<APut(T_int, el)>>, st),
                  rest |-> i.rest]
          [] OTHER -> [w |-> replyError(st, TRUE), rest |-> s.rest]

processChannelGetArray(cmd, size, el, fnOk, st, wire) ==
    LET g == getValue(T_chan, "avr", st, wire)
        s == getValue(T_cmd, "avr", st, g.rest)
    IN  IF g.ok /\ s.ok
        THEN ChanArrayDone(g,
                 processChannelGetArraySub(cmd, size, el, fnOk, st, s))
        ELSE ChanHandled(FALSE, TRUE, g.val, replyError(st, TRUE),
                         IF g.ok THEN s.rest ELSE g.rest)
\* the handlers a device registers for the channel command, with the outcome
\* of its callback
ChannelHandlers == [name : ChannelOpNames, hook : {"ok", "fail"}]

\* doProcessCommand for the channel command: the registered handler
ChanHandle(h, cmd, st, wire) ==
    CASE h.name = "dispatchChannelTask" ->
             processChannelTask(cmd, h.hook = "ok", st, wire)
      [] h.name = "dispatchChannelSet" ->
             processChannelSet(cmd, T_int, h.hook = "ok", st, wire)
      [] h.name = "dispatchChannelSet2" ->
             processChannelSet2(cmd, T_int, T_int, h.hook = "ok", st, wire)
      [] h.name = "dispatchChannelSetString" ->
             processChannelSetString(cmd, DevBufSize, h.hook = "ok", st, wire)
      [] h.name = "dispatchChannelGet" ->
             processChannelGet(cmd, T_int, DevValue(cmd), h.hook = "ok", st,
                               wire)
      [] h.name = "dispatchChannelGet2" ->
             processChannelGet2(cmd, T_int, T_int, DevValue(cmd), FromInt(26),
                                h.hook = "ok", st, wire)
      [] h.name = "dispatchChannelGetString" ->
             processChannelGetString(cmd, DevString, h.hook = "ok", st, wire)
      [] h.name = "dispatchChannelSetArray" ->
             processChannelSetArray(cmd, MaxArrayLen, h.hook = "ok", st, wire)
      [] h.name = "dispatchChannelGetArray" ->
             processChannelGetArray(cmd, 1, Element(1), h.hook = "ok", st,
                                    wire)

\* checkReply(cmd) && getValue(t) && getValue(u)
ChanReadTwo(r1, st) ==
    IF r1.ok
    THEN ArrReadValue(r1, getValue(T_int, "host", st, r1.rest))
    ELSE r1

\* getString(strbuf, size) && checkReply(cmd)
ChanReadString(cmd, g, st) ==
    IF g.ok
    THEN ArrReadAfter(checkReply(cmd, "host", st, g.rest), FALSE, T_int, st,
                      TRUE)
    ELSE ARead(FALSE, W(0, 0), g.rest, 0)

\* the comparison that follows the reads of an exchange: __size <= maxSize
\* for the array of one element and the caller's buffer of MaxArrayLen
ChanSized(op, x, r) ==
    CASE op.name = "dispatchChannelSetArray" /\ x = 1 ->
             [r EXCEPT !.ok = @ /\ ~ChanBelow(r.val, 1)]
      [] op.name = "dispatchChannelGetArray" /\ x = 2 ->
             [r EXCEPT !.ok = @ /\ ChanBelow(r.val, MaxArrayLen + 1)]
      [] OTHER -> r

\* the reads of exchange x of a channel operation
ChanRead(op, x, st, wire) ==
    CASE op.name = "dispatchChannelGet" ->
             ArrRead(op.cmd, TRUE, T_int, st, wire)
      [] op.name = "dispatchChannelGet2" ->
             ChanReadTwo(ArrRead(op.cmd, TRUE, T_int, st, wire), st)
      [] op.name = "dispatchChannelGetString" ->
             ChanReadString(op.cmd,
                            getString("host", st, wire, FreshBuf(DevBufSize),
                                      DevBufSize), st)
      [] op.name = "dispatchChannelSetArray" ->
             ChanSized(op, x, ArrRead(op.cmd, x = 1, T_size, st, wire))
      [] op.name = "dispatchChannelGetArray" ->
             ChanSized(op, x, ArrRead(op.cmd, x > 1,
                                      IF x = 2 THEN T_size ELSE T_int, st,
                                      wire))
      [] OTHER -> ArrRead(op.cmd, FALSE, T_int, st, wire)

ChanHostIdle ==
    [pc |-> "idle", op |-> [name |-> "none", cmd |-> 0, chan |-> W(0, 0)],
     x |-> 0, ok |-> FALSE, wok |-> FALSE, req |-> <<>>, clean |-> FALSE,
     n |-> 0]

ChanDevBlank(h) ==
    [handler |-> h, called |-> FALSE, withChan |-> FALSE, chan |-> W(0, 0),
     handled |-> 0]

\* a dispatchChannelXXX call begins, on the command the device registered
ChanBegin ==
    /\ host.pc \in {"idle", "done"}
    /\ host.n < MaxChannelOps
    /\ \E op \in ChannelOps :
         /\ op.name = dev.handler.name
         /\ host' = [ChanHostIdle EXCEPT !.pc = "send", !.op = op, !.x = 1,
                                         !.n = host.n + 1]
    /\ dev' = [dev EXCEPT !.called = FALSE, !.handled = 0]
    /\ UNCHANGED <<thr, lock, codec, started, h2s, s2h>>

\* req: the bytes of this request; clean: the responder had read all that
\* was written before
ChanSent(w) ==
    /\ h2s' = h2s \o w.out
    /\ host' = [host EXCEPT !.req = w.out, !.wok = w.ok, !.ok = w.ok,
                            !.clean = (h2s = <<>>),
                            !.pc = IF w.ok THEN "recv" ELSE "done"]

\* the writes of an exchange; dev.called is about the request in flight
ChanSend ==
    /\ host.pc = "send"
    /\ \E fail \in 0..5 :
         ChanSent(ChanWrite(host.op, host.x, fail, started.host))
    /\ dev' = [dev EXCEPT !.called = FALSE]
    /\ UNCHANGED <<thr, lock, codec, started, s2h>>

ChanReceived(r) ==
    /\ s2h' = r.rest
    /\ host' = [host EXCEPT
                  !.ok = r.ok,
                  !.pc = IF r.ok /\ host.x < ChanExchanges(host.op)
                         THEN "send" ELSE "done",
                  !.x = IF r.ok /\ host.x < ChanExchanges(host.op)
                        THEN @ + 1 ELSE @]

\* the reads of an exchange: the answer has arrived, or the responder has
\* nothing left to answer and the read times out
ChanRecv ==
    /\ host.pc = "recv"
    /\ TermPos(s2h) # 0 \/ ~hasCommand(started.avr, h2s)
    /\ ChanReceived(ChanRead(host.op, host.x, started.host, s2h))
    /\ UNCHANGED <<thr, lock, codec, started, h2s, dev>>

ChanRan(r) ==
    /\ h2s' = r.rest
    /\ s2h' = s2h \o r.out
    /\ dev' = [dev EXCEPT !.called = r.called, !.withChan = r.withChan,
                          !.chan = r.chan, !.handled = @ + 1]

ChanDispatch(g) ==
    IF g.cmd = ArrSetCmd
    THEN ChanRan(ChanHandle(dev.handler, g.cmd, started.avr, g.rest))
    ELSE /\ h2s' = g.rest
         /\ s2h' = s2h \o replyError(started.avr, TRUE).out
         /\ dev' = [dev EXCEPT !.called = FALSE]

\* loop(): when a command byte is waiting, it is read and dispatched
ChanProcess ==
    /\ hasCommand(started.avr, h2s)
    /\ host.pc # "send"
    /\ ChanDispatch(getCommand(started.avr, h2s))
    /\ UNCHANGED <<thr, lock, codec, started, host>>

ChanInit ==
    /\ thr = [t \in Threads |-> ThreadIdle]
    /\ lock = LockFree
    /\ codec = CodecBlank
    /\ started = [host |-> TRUE, avr |-> TRUE]
    /\ h2s = <<>>
    /\ s2h = <<>>
    /\ host = ChanHostIdle
    /\ dev \in {ChanDevBlank(h) : h \in ChannelHandlers}

ChanNext ==
    \/ ChanBegin
    \/ ChanSend
    \/ ChanRecv
    \/ ChanProcess

ChanSpec == ChanInit /\ [][ChanNext]_vars

\* ------------------------------------------------------------------------
\* StringStream specification: a Stream backed by a String
\* ------------------------------------------------------------------------

\* the calls made on one StringStream
MaxStreamOps == 5

\* bytes written to the stream: a letter, and the two ends of the upper
\* half of uint8_t
StreamBytes == {65, 128, 255}

\* the arguments of write(buffer, size)
StreamBuffers == {<<65, 128>>, <<65, 255, 65>>}

\* the String base and head_: buffer holds the len characters of the
\* String (has: the buffer is allocated), capacity what was reserved;
\* schar: plain char is signed in this build, as it is on the AVR
StringStream(capacity, schar) ==
    [has |-> capacity > 0, buffer |-> <<>>, capacity |-> capacity, head |-> 0,
     schar |-> schar]

\* String::concat by way of write: the String reserves what it lacks, which
\* may fail (ok), and appends
concat(s, bytes, ok) ==
    IF ok \/ (s.has /\ s.capacity >= Len(s.buffer) + Len(bytes))
    THEN [s |-> [s EXCEPT !.has = TRUE, !.buffer = @ \o bytes,
                          !.capacity = IF @ >= Len(s.buffer) + Len(bytes)
                                       THEN @
                                       ELSE Len(s.buffer) + Len(bytes)],
          ret |-> Len(bytes)]
    ELSE [s |-> s, ret |-> 0]

\* shift: everything past the head moves to the beginning
shift(s) ==
    [s EXCEPT !.buffer = SubSeq(s.buffer, s.head + 1, Len(s.buffer)),
              !.head = 0]

\* available after the test of head_ > capacity / 2
availableClamp(s) ==
    [s |-> [s EXCEPT !.head = IF @ > Len(s.buffer) THEN Len(s.buffer) ELSE @],
     ret |-> Len(s.buffer) - (IF s.head > Len(s.buffer) THEN Len(s.buffer)
                              ELSE s.head)]

\* available: the unread length, after compaction when the head is past
\* half the capacity
available(s) ==
    IF s.has
    THEN availableClamp(IF s.head > s.capacity \div 2 THEN shift(s) ELSE s)
    ELSE [s |-> s, ret |-> 0]

\* static_cast<int>(char) of the byte b, char being signed or not
CharToInt(b, schar) == IF schar /\ b >= 128 THEN b - 256 ELSE b

\* read after available() returned a
readAfter(a) ==
    IF a.ret # 0
    THEN [s |-> [a.s EXCEPT !.head = @ + 1],
          ret |-> CharToInt(a.s.buffer[a.s.head + 1], a.s.schar)]
    ELSE [s |-> a.s, ret |-> 0 - 1]

read(s) == readAfter(available(s))

\* peek after available() returned a
peekAfter(a) ==
    IF a.ret # 0
    THEN [s |-> a.s, ret |-> CharToInt(a.s.buffer[a.s.head + 1], a.s.schar)]
    ELSE [s |-> a.s, ret |-> 0 - 1]

peek(s) == peekAfter(available(s))

\* flush: the string is cleared, the memory kept
flush(s) == [s |-> [s EXCEPT !.buffer = <<>>, !.head = 0], ret |-> 0]

\* the caller's record: the bytes written and the values read() returned
\* for them since the last flush, the last call with its result, and
\* whether an unread byte remained when that call began
StreamCaller ==
    [written |-> <<>>, reads |-> <<>>, op |-> "none", ret |-> 0,
     unread |-> 0, n |-> 0]

StreamCalled(op, r, written, reads) ==
    /\ dev' = r.s
    /\ host' = [written |-> written, reads |-> reads, op |-> op,
                ret |-> r.ret, unread |-> Len(host.written) - Len(host.reads),
                n |-> host.n + 1]

StreamWrote(r, bytes) ==
    StreamCalled("write", r,
                 IF r.ret # 0 THEN host.written \o bytes ELSE host.written,
                 host.reads)

\* write(c) and write(buffer, size)
StreamWrite ==
    /\ host.n < MaxStreamOps
    /\ \E ok \in BOOLEAN :
         \/ \E c \in StreamBytes : StreamWrote(concat(dev, <<c>>, ok), <<c>>)
         \/ \E b \in StreamBuffers : StreamWrote(concat(dev, b, ok), b)
    /\ UNCHANGED <<thr, lock, codec, started, h2s, s2h>>

StreamReadDone(r) ==
    StreamCalled("read", r, host.written,
                 IF Len(host.written) > Len(host.reads)
                 THEN Append(host.reads, r.ret) ELSE host.reads)

StreamRead ==
    /\ host.n < MaxStreamOps
    /\ StreamReadDone(read(dev))
    /\ UNCHANGED <<thr, lock, codec, started, h2s, s2h>>

StreamPeek ==
    /\ host.n < MaxStreamOps
    /\ StreamCalled("peek", peek(dev), host.written, host.reads)
    /\ UNCHANGED <<thr, lock, codec, started, h2s, s2h>>

StreamAvailable ==
    /\ host.n < MaxStreamOps
    /\ StreamCalled("available", available(dev), host.written, host.reads)
    /\ UNCHANGED <<thr, lock, codec, started, h2s, s2h>>

StreamFlush ==
    /\ host.n < MaxStreamOps
    /\ StreamCalled("flush", flush(dev), <<>>, <<>>)
    /\ UNCHANGED <<thr, lock, codec, started, h2s, s2h>>

\* StringStream() or StringStream(__initialCapacity)
StreamInit ==
    /\ thr = [t \in Threads |-> ThreadIdle]
    /\ lock = LockFree
    /\ codec = CodecBlank
    /\ started = [host |-> FALSE, avr |-> FALSE]
    /\ h2s = <<>>
    /\ s2h = <<>>
    /\ host = StreamCaller
    /\ dev \in {StringStream(capacity, schar) :
                   capacity \in {0, 4}, schar \in BOOLEAN}

StreamNext ==
    \/ StreamWrite
    \/ StreamRead
    \/ StreamPeek
    \/ StreamAvailable
    \/ StreamFlush

StreamSpec == StreamInit /\ [][StreamNext]_vars

\* ------------------------------------------------------------------------
\* Property specification: the cached value of the remote properties
\* ------------------------------------------------------------------------

\* the calls of OnExecute on one property
MaxPropOps == 3

\* the capacity of the remote array
PropMaxSize == 2

\* the property classes with the commands of their CommandSet: set and get
\* tell whether cmdSet() and cmdGet() are non-zero, array whether the value
\* is the string of an array
PropKinds ==
    {[class |-> "RemoteProp", set |-> TRUE, get |-> TRUE, array |-> FALSE],
     [class |-> "RemoteCachedProp", set |-> TRUE, get |-> FALSE,
      array |-> FALSE],
     [class |-> "RemoteReadOnlyProp", set |-> FALSE, get |-> TRUE,
      array |-> FALSE],
     [class |-> "RemoteSequenceableProp", set |-> TRUE, get |-> FALSE,
      array |-> FALSE],
     [class |-> "RemoteArrayProp", set |-> TRUE, get |-> TRUE, array |-> TRUE],
     [class |-> "RemoteArrayProp", set |-> FALSE, get |-> TRUE,
      array |-> TRUE]}

\* the values of a scalar property
PropValues == {0, 1, 2}

\* outSep_, the separator "; " between two elements of an array string
PropSep == <<59, 32>>

\* MarshalValue<E> of an element of one digit
MarshalValue(el) == <<48 + el>>

\* the strings MicroManager sets on an array property: "", "1", "1; 2"
\* and "2;1;0"
PropStrings == {<<>>, <<49>>, <<49, 59, 32, 50>>, <<50, 59, 49, 59, 48>>}

\* the values MicroManager sets on a property of kind k
PropInputs(k) == IF k.array THEN PropStrings ELSE PropValues

\* RemoteArrayProp::marshalArrayH: the elements joined by the separator
RECURSIVE marshalArrayH(_)
marshalArrayH(arr) ==
    IF Len(arr) = 0 THEN <<>>
    ELSE IF Len(arr) = 1 THEN MarshalValue(arr[1])
    ELSE MarshalValue(arr[1]) \o PropSep \o marshalArrayH(Tail(arr))

\* RemoteArrayProp::marshalStringH: ParseValue<E> of the tokens between
\* the matches of inSep_, a semicolon with the spaces around it
RECURSIVE marshalStringH(_)
marshalStringH(str) ==
    IF Len(str) = 0 THEN <<>>
    ELSE IF str[1] \in {59, 32} THEN marshalStringH(Tail(str))
    ELSE <<str[1] - 48>> \o marshalStringH(Tail(str))

PropResult(ret, val, remote) == [ret |-> ret, val |-> val, remote |-> remote]

\* getRemoteValueH(val) over an exchange that succeeds or not (ok): val is
\* what the argument holds afterwards, old what it held before.  The array
\* property marshals what getRemoteArrayH returned, an empty vector when
\* the exchange failed, and returns DEVICE_OK.
getRemoteValueH(k, ok, remote, old) ==
    IF k.array
    THEN PropResult("DEVICE_OK",
                    marshalArrayH(IF ok THEN remote.arr ELSE <<>>), remote)
    ELSE IF ok THEN PropResult("DEVICE_OK", remote.val, remote)
    ELSE PropResult("ERR_COMMUNICATION", old, remote)

\* RemoteArrayProp::setRemoteValueH after getRemoteArrayMaxSizeH returned
\* maxSize
setRemoteArrayH(arr, maxSize, ok, remote, val) ==
    IF Len(arr) > maxSize
    THEN PropResult("DEVICE_SEQUENCE_TOO_LARGE", val, remote)
    ELSE IF ok
    THEN PropResult("DEVICE_OK", val, [remote EXCEPT !.arr = arr])
    ELSE PropResult("ERR_COMMUNICATION", val, remote)

\* setRemoteValueH(val): okSize is the exchange of the maximum size, ok the
\* exchange that sets the value
setRemoteValueH(k, okSize, ok, remote, val) ==
    IF k.array
    THEN setRemoteArrayH(marshalStringH(val),
                         IF okSize THEN PropMaxSize ELSE 0, ok, remote, val)
    ELSE IF ok THEN PropResult("DEVICE_OK", val, [remote EXCEPT !.val = val])
    ELSE PropResult("ERR_COMMUNICATION", val, remote)

\* a property before createRemoteProp: cachedValue_ is default-initialised,
\* which leaves an arithmetic T indeterminate (any) and a string empty
PropBlank(k, any) ==
    [kind |-> k, created |-> FALSE, cached |-> IF k.array THEN <<>> ELSE any,
     initial |-> IF k.array THEN <<>> ELSE any,
     good |-> IF k.array THEN <<>> ELSE any,
     act |-> "none", ret |-> "DEVICE_OK", failed |-> FALSE, changed |-> FALSE,
     n |-> 0]

\* the remote device: its value and its array
PropRemote == [val |-> 2, arr |-> <<1, 2>>]

\* the property after a call: good is the initial value or the value of
\* the last exchange that succeeded, failed tells that the exchange that
\* carries the value failed, changed that the call assigned another cached
\* value
PropAfter(act, cached, good, ret, failed) ==
    host' = [host EXCEPT !.created = TRUE, !.cached = cached, !.good = good,
                         !.act = act, !.ret = ret, !.failed = failed,
                         !.changed = cached # host.cached, !.n = @ + 1]

\* createRemotePropH with a set command: the initial value is cached by
\* createDevicePropH and set on the remote
PropCreatedSet(initial, s) ==
    /\ PropAfter("create", initial, initial, "DEVICE_OK",
                 s.ret # "DEVICE_OK")
    /\ dev' = s.remote

\* createRemotePropH of a read-only property: the value is read from the
\* remote into cachedValue_
PropCreatedGet(g, ok) ==
    /\ PropAfter("create", g.val, IF ok THEN g.val ELSE host.initial,
                 "DEVICE_OK", ~ok)
    /\ dev' = g.remote

PropCreateAs(initial, okSize, ok) ==
    IF ~host.kind.set /\ host.kind.get
    THEN PropCreatedGet(getRemoteValueH(host.kind, ok, dev, host.cached), ok)
    ELSE PropCreatedSet(initial,
                        setRemoteValueH(host.kind, okSize, ok, dev, initial))

\* createRemoteProp
PropCreate ==
    /\ ~host.created
    /\ \E okSize, ok \in BOOLEAN :
         PropCreateAs(host.initial, okSize, ok)
    /\ UNCHANGED <<thr, lock, codec, started, h2s, s2h>>

\* OnExecute(BeforeGet) with a get command, after getRemoteValueH(temp)
PropGot(g, ok) ==
    /\ IF g.ret # "DEVICE_OK"
       THEN PropAfter("BeforeGet", host.cached, host.good, g.ret, ~ok)
       ELSE PropAfter("BeforeGet", g.val, IF ok THEN g.val ELSE host.good,
                      "DEVICE_OK", ~ok)
    /\ dev' = g.remote

\* OnExecute(AfterSet) with a set command, after setRemoteValueH(temp);
\* notify is what notifyChangeH returns
PropSet(s, failed, notify) ==
    /\ IF s.ret # "DEVICE_OK"
       THEN PropAfter("AfterSet", host.cached, host.good, s.ret, failed)
       ELSE PropAfter("AfterSet", s.val, s.val, notify, failed)
    /\ dev' = s.remote

\* OnExecute(pProp, eAct) for BeforeGet and AfterSet; temp is the local
\* that getRemoteValueH fills, indeterminate before
PropExecute ==
    /\ host.created
    /\ host.n < MaxPropOps
    /\ \E okSize, ok \in BOOLEAN :
         \/ /\ host.kind.get
            /\ \E temp \in PropInputs(host.kind) :
                 PropGot(getRemoteValueH(host.kind, ok, dev, temp), ok)
         \/ /\ ~host.kind.get
            /\ PropAfter("BeforeGet", host.cached, host.good, "DEVICE_OK",
                         FALSE)
            /\ dev' = dev
         \/ /\ host.kind.set
            /\ \E temp \in PropInputs(host.kind),
                  notify \in {"DEVICE_OK", "ERR_NOTIFY"} :
                 PropSet(setRemoteValueH(host.kind, okSize, ok, dev, temp),
                         ~ok, notify)
    /\ UNCHANGED <<thr, lock, codec, started, h2s, s2h>>

PropInit ==
    /\ thr = [t \in Threads |-> ThreadIdle]
    /\ lock = LockFree
    /\ codec = CodecBlank
    /\ started = [host |-> TRUE, avr |-> TRUE]
    /\ h2s = <<>>
    /\ s2h = <<>>
    /\ \E k \in PropKinds :
         \E any \in PropValues, initial \in PropInputs(k) :
           host = [PropBlank(k, any) EXCEPT !.initial = initial,
                                            !.good = initial]
    /\ dev = PropRemote

PropNext ==
    \/ PropCreate
    \/ PropExecute

PropSpec == PropInit /\ [][PropNext]_vars

\* ------------------------------------------------------------------------
\* Properties of the exchange
\* ------------------------------------------------------------------------

\* C1: for every command the responder dispatched to a processXXX handler,
\* the handler wrote exactly one reply value, the echoed command or ERROR.
C1_ExactlyOneReply ==
    dev.handled =>
        /\ Len(dev.last.replies) = 1
        /\ dev.last.replies[1] \in {dev.last.cmd, PROT_ERROR}

C1_Witness ==
    /\ dev.handled
    /\ dev.handler = [kind |-> "get", hook |-> "fail"]
    /\ dev.last.cmd = 83
    /\ dev.last.replies = <<PROT_ERROR, 83>>
    /\ dev.last.out = <<49, 53, 4, 53, 51, 4, 45, 49, 4>>

IsPrefix(a, b) == Len(a) <= Len(b) /\ SubSeq(b, 1, Len(a)) = a

IsSuffix(a, b) ==
    Len(a) <= Len(b) /\ SubSeq(b, Len(b) - Len(a) + 1, Len(b)) = a

AllOk(trace) == \A i \in 1..Len(trace) : trace[i].ok

\* the steps that ran are the first steps of the chain in order, none ran
\* after a failed one, and the result is true exactly when all of them ran
\* and succeeded
C2_Chain ==
    /\ Len(host.trace) <= Len(Steps(host.op))
    /\ \A i \in 1..Len(host.trace) :
         /\ host.trace[i].step = i
         /\ i < Len(host.trace) => host.trace[i].ok
    /\ host.pc = "run" => (AllOk(host.trace) /\ host.step = Len(host.trace) + 1)
    /\ host.pc = "done" =>
         /\ Len(host.trace) >= 1
         /\ host.ok = (Len(host.trace) = Len(Steps(host.op)) /\ AllOk(host.trace))

\* once an operation has returned it writes nothing and reads nothing
C2_Returned ==
    (host.pc = "done" /\ host'.pc = "done") =>
        /\ host' = host
        /\ IsSuffix(h2s', h2s)
        /\ IsPrefix(s2h, s2h')

\* C2: every dispatch operation runs its steps strictly left to right and
\* stops at the first step that fails: no later step writes to or reads
\* from the transport, the operation returns false, and it returns true
\* only when every step succeeded.
C2_ShortCircuit == []C2_Chain /\ [][C2_Returned]_vars

C2_Witness ==
    /\ host.pc = "done"
    /\ host.op.name = "dispatchSet"
    /\ host.st
    /\ ~host.ok
    /\ Len(host.trace) = 2
    /\ host.sent = <<host.op.cmd>>

\* an operation called while the host session is not started fails at its
\* first step without touching the transport
C3_HostFails ==
    (host.pc # "idle" /\ ~host.st) =>
        /\ host.sent = <<>>
        /\ \A i \in 1..Len(host.trace) :
             ~host.trace[i].ok /\ ~host.trace[i].io
        /\ host.pc = "done" => (~host.ok /\ Len(host.trace) = 1)

\* an end that is not started neither writes a byte nor consumes one
C3_Untouched ==
    /\ ~started.host => (IsSuffix(h2s', h2s) /\ IsPrefix(s2h, s2h'))
    /\ ~started.avr => (IsPrefix(h2s, h2s') /\ IsSuffix(s2h', s2h))

\* C3: while a session is not started every transport operation fails
\* without touching the transport, so every dispatch operation returns
\* false and no byte is written or consumed.
C3_NotStarted == []C3_HostFails /\ [][C3_Untouched]_vars

C3_Witness ==
    /\ host.pc = "done"
    /\ ~host.st
    /\ ~host.ok
    /\ host.op.name = "dispatchSet"
    /\ host.n = 2
    /\ s2h # <<>>
    /\ host.trace = <<[step |-> 1, ok |-> FALSE, io |-> FALSE]>>

\* C8 as written: -1 set under command 0x53 is the byte 0x53, then
\* "-ffffffff", then TERM; the responder's answer to a get of it is "53",
\* TERM, "-ffffffff", TERM.
C8_AsWritten ==
    /\ ( /\ host.op.name = "dispatchSet"
         /\ host.op.cmd = 83
         /\ host.op.val = FromInt(0 - 1)
         /\ Len(host.trace) >= 2
         /\ host.trace[2].ok ) =>
           host.sent = <<83, 45, 102, 102, 102, 102, 102, 102, 102, 102, 4>>
    /\ ( /\ dev.handled
         /\ dev.last.cmd = 83
         /\ dev.handler \in {[kind |-> "get", hook |-> "none"],
                             [kind |-> "getFn", hook |-> "ok"]} ) =>
           dev.last.out =
               <<53, 51, 4, 45, 102, 102, 102, 102, 102, 102, 102, 102, 4>>

\* C8: -1 set under command 0x53 is the byte 0x53, then "-1", then TERM;
\* the responder's answer to a get of it is "53", TERM, "-1", TERM.
C8_MinusOne ==
    /\ ( /\ host.op.name = "dispatchSet"
         /\ host.op.cmd = 83
         /\ host.op.val = FromInt(0 - 1)
         /\ Len(host.trace) >= 2
         /\ host.trace[2].ok ) =>
           host.sent = <<83, 45, 49, 4>>
    /\ ( /\ dev.handled
         /\ dev.last.cmd = 83
         /\ dev.handler \in {[kind |-> "get", hook |-> "none"],
                             [kind |-> "getFn", hook |-> "ok"]} ) =>
           dev.last.out = <<53, 51, 4, 45, 49, 4>>

C8_Witness ==
    /\ host.pc = "done"
    /\ host.op.name = "dispatchGet"
    /\ host.op.cmd = 83
    /\ host.ok
    /\ host.got = FromInt(0 - 1)
    /\ dev.last.out = <<53, 51, 4, 45, 49, 4>>

\* the handlers that acknowledge a set, and a get, when nothing fails
SetHandlers == {[kind |-> "set", hook |-> "none"], [kind |-> "setFn", hook |-> "ok"]}

GetHandlers == {[kind |-> "get", hook |-> "none"], [kind |-> "getFn", hook |-> "ok"]}

\* C11: the reply echo is the command as a hexadecimal numeral followed by
\* TERM, never the raw byte, and on a get it precedes the value.  A set of
\* the int 31 under 0x4d puts 0x4d, "1f", TERM on the host-to-slave wire and
\* the responder answers "4d", TERM; a get under 0x4f of the value 31 puts
\* only 0x4f on the host-to-slave wire and the responder answers "4f", TERM,
\* "1f", TERM.
C11_ReplyEcho ==
    /\ ( /\ host.op.name = "dispatchSet"
         /\ host.op.cmd = 77
         /\ Len(host.trace) >= 2
         /\ host.trace[2].ok ) =>
           host.sent = <<77, 49, 102, 4>>
    /\ (host.op.name = "dispatchGet" /\ host.op.cmd = 79 /\ host.pc = "done") =>
           host.sent = (IF host.trace[1].ok THEN <<79>> ELSE <<>>)
    /\ (dev.handled /\ dev.last.cmd = 77 /\ dev.handler \in SetHandlers
          /\ dev.arg.ok) =>
           dev.last.out = <<52, 100, 4>>
    /\ (dev.handled /\ dev.last.cmd = 79 /\ dev.handler \in GetHandlers) =>
           dev.last.out = <<52, 102, 4, 49, 102, 4>>
    /\ (dev.handled /\ dev.last.replies # <<>>) =>
           /\ IsPrefix(Append(prot_ultohexstr(FromNat(dev.last.replies[1])),
                              PROT_TERM_CHAR), dev.last.out)
           /\ Len(dev.last.out) >= 3

C11_Witness ==
    /\ host.pc = "done"
    /\ host.op.name = "dispatchGet"
    /\ host.op.cmd = 79
    /\ host.ok
    /\ host.sent = <<79>>
    /\ host.got = FromInt(31)
    /\ dev.last.out = <<52, 102, 4, 49, 102, 4>>

InSeq(x, seq) == \E i \in 1..Len(seq) : seq[i] = x

C14_ErrorOnly ==
    (dev.handled /\ dev.handler.hook = "fail") =>
        dev.last.replies = <<PROT_ERROR>>

C14_Witness ==
    /\ dev.handled
    /\ dev.handler = [kind |-> "getString", hook |-> "fail"]
    /\ dev.last.cmd = 83
    /\ dev.last.replies = <<PROT_ERROR, 83>>
    /\ dev.last.out = <<49, 53, 4, 53, 51, 4, 97, 4>>

\* the handlers that read an argument after the command byte
ArgKinds == {"set", "setFn", "setString"}

\* the responder accepts a command byte that nothing follows: the read of
\* the handler's argument times out
C15_Timeout ==
    /\ started.avr
    /\ h2s # <<>>
    /\ Head(h2s) \in Cmds
    /\ Tail(h2s) = <<>>
    /\ dev.handler.kind \in ArgKinds
    /\ h2s' = <<>>

C22_Matched ==
    /\ host.op.name = "dispatchGetString"
    /\ host.pc = "done"
    /\ host.n = 1
    /\ host.sent = <<83>>
    /\ dev.handler = [kind |-> "getStringFn", hook |-> "ok"]
    /\ dev.handled
    /\ dev.last.out = <<53, 51, 4>> \o DevString \o <<4>>

\* C22: a get-string exchange between dispatchGetString and a
\* processGetString whose callback succeeds with a non-empty string s
\* succeeds: the initiator returns true and its buffer holds s.
C22_GetStringExchange == C22_Matched => (host.ok /\ host.got = DevString)

C22_Witness ==
    /\ C22_Matched
    /\ ~host.ok
    /\ host.got = <<53, 51>>
    /\ s2h = <<>>

\* zero or more payloads, each followed by TERM
IsTerminated(bytes) == bytes = <<>> \/ bytes[Len(bytes)] = PROT_TERM_CHAR

\* C23: what the initiator has written for an operation is the raw command
\* byte followed by zero or more payloads that each end with TERM; the
\* command byte is the only transmission without a terminator.
C23_Framed ==
    host.sent # <<>> =>
        (Head(host.sent) = host.op.cmd /\ IsTerminated(Tail(host.sent)))

C23_Witness ==
    /\ host.op.name = "dispatchSetString"
    /\ host.pc = "done"
    /\ ~host.ok
    /\ host.sent = <<83, 97>>
    /\ h2s = <<83, 97>>

\* an exchange of the initiator has returned true
C24_Succeeded == host.pc = "done" /\ host.ok

\* the terminators a successful exchange writes: one for each value or
\* string after the command byte
C24_Emitted(name) ==
    IF name \in {"dispatchSet", "dispatchSetString"} THEN 1 ELSE 0

\* the terminators a successful exchange reads: the reply's, and one for
\* each value or string the responder returns
C24_Consumed(name) ==
    IF name \in {"dispatchGet", "dispatchGetString"} THEN 2 ELSE 1

\* C24 as written: for every successful exchange the number of TERM bytes
\* the initiator emitted equals the number of TERM bytes it consumed.
C24_AsWritten == C24_Succeeded => TermsIn(host.sent) = host.terms

\* C24: a successful exchange emitted one TERM for each value it wrote after
\* the command byte (none for a task or a get, one for a set of one value or
\* of a string) and consumed one TERM for the reply and one for each value
\* it read (one for a task or a set, two for a get); the two numbers are
\* equal for the sets and differ for the task and the gets.
C24_TermCounts ==
    C24_Succeeded =>
        /\ TermsIn(host.sent) = C24_Emitted(host.op.name)
        /\ host.terms = C24_Consumed(host.op.name)
        /\ (TermsIn(host.sent) = host.terms) =
               (host.op.name \in {"dispatchSet", "dispatchSetString"})

C24_Witness ==
    /\ C24_Succeeded
    /\ host.op.name = "dispatchGet"
    /\ host.op.cmd = 79
    /\ host.sent = <<79>>
    /\ host.terms = 2
    /\ host.got = FromInt(31)
    /\ dev.last.out = <<52, 102, 4, 49, 102, 4>>

ASent(sub, idx) == [sub |-> sub, idx |-> idx]

\* the exchanges of a whole array set of n elements
SetArrayExchanges(n) ==
    [k \in 1..(n + 2) |->
        IF k = 1 THEN ASent(SUBCMD_ARRAY_SIZE, 0)
        ELSE IF k = n + 2 THEN ASent(SUBCMD_ARRAY_FINISHED, 0)
        ELSE ASent(SUBCMD_ARRAY_ELEMENT, k - 2)]

\* the host bytes of the array set of 100, 110, 120, 130 under 'M'
SetArrayBytes4 ==
    <<77, 49, 4>>
    \o <<77, 51, 4, 48, 4, 54, 52, 4>> \o <<77, 51, 4, 49, 4, 54, 101, 4>>
    \o <<77, 51, 4, 50, 4, 55, 56, 4>> \o <<77, 51, 4, 51, 4, 56, 50, 4>>
    \o <<77, 52, 4, 52, 4>>

C17_EndsFinished ==
    (host.op.name = "dispatchSetArray" /\ host.pc = "done"
       /\ host.exch # <<>>) =>
        host.exch[Len(host.exch)].sub = SUBCMD_ARRAY_FINISHED

C17_Witness ==
    /\ host.op.name = "dispatchSetArray"
    /\ host.pc = "done"
    /\ ~host.ok
    /\ Len(host.op.data) = 1
    /\ host.exch = <<ASent(SUBCMD_ARRAY_SIZE, 0)>>
    /\ host.sent = <<77, 49, 4>>
    /\ dev.last.out = <<49, 53, 4>>

\* C18: the first sub-command the host sends to retrieve a remote array
\* (dispatchGetArray, getRemoteArrayH) is STARTING, and no ELEMENT
\* sub-command is sent before a STARTING exchange.
C18_BeginsStarting ==
    (host.op.name \in {"dispatchGetArray", "getRemoteArrayH"}
       /\ host.exch # <<>>) =>
        /\ host.exch[1].sub = SUBCMD_ARRAY_STARTING
        /\ \A k \in 1..Len(host.exch) :
             host.exch[k].sub = SUBCMD_ARRAY_ELEMENT =>
                 \E j \in 1..(k - 1) : host.exch[j].sub = SUBCMD_ARRAY_STARTING

C18_Witness ==
    /\ host.op.name = "getRemoteArrayH"
    /\ host.pc = "done"
    /\ host.ok
    /\ host.exch = <<ASent(SUBCMD_ARRAY_SIZE, 0), ASent(SUBCMD_ARRAY_STARTING, 0),
                     ASent(SUBCMD_ARRAY_SIZE, 0), ASent(SUBCMD_ARRAY_ELEMENT, 0),
                     ASent(SUBCMD_ARRAY_ELEMENT, 1)>>
    /\ host.got = <<[idx |-> 0, val |-> FromInt(7)],
                    [idx |-> 1, val |-> FromInt(8)]>>

\* C19: a dispatchSetArray whose array is longer than the maximum size the
\* responder reported returns false after the size query: it sends no
\* ELEMENT and no FINISHED sub-command, and the remote array and its length
\* are as they were.
C19_TooLong ==
    (host.op.name = "dispatchSetArray" /\ host.reads >= 2
       /\ Len(host.op.data) > host.size) =>
        /\ host.pc = "done"
        /\ ~host.ok
        /\ host.exch = <<ASent(SUBCMD_ARRAY_SIZE, 0)>>
        /\ host.sent = <<77, 49, 4>>
        /\ host.n = 1 => (dev.arr = ArrInitial /\ dev.size = Len(<<7, 8>>))

C19_Witness ==
    /\ host.op.name = "dispatchSetArray"
    /\ host.pc = "done"
    /\ ~host.ok
    /\ Len(host.op.data) = 3
    /\ host.size = 2
    /\ dev.max = 2
    /\ host.reads = 2
    /\ dev.last.out = <<52, 100, 4, 50, 4>>
    /\ h2s = <<>>

\* C20: the responder never reads or writes its array outside the buffer;
\* a set-array ELEMENT with index >= max size and a get-array ELEMENT with
\* index >= current size are answered with ERROR ("15" TERM) only, nothing
\* is stored, and the initiator's exchange (on wires that hold nothing of
\* an earlier operation) fails.
C20_InBounds ==
    /\ ~dev.oob
    /\ \A j \in DOMAIN dev.arr : j < dev.max
    /\ ( /\ dev.handled
         /\ dev.last.sub = SUBCMD_ARRAY_ELEMENT
         /\ \/ dev.last.cmd = ArrSetCmd /\ dev.last.idx >= dev.max
            \/ dev.last.cmd = ArrGetCmd /\ dev.last.idx >= dev.size ) =>
           /\ dev.last.replies = <<PROT_ERROR>>
           /\ dev.last.out = <<49, 53, 4>>
           /\ ~dev.last.ok
    /\ ( /\ host.pc = "done"
         /\ host.n = 1
         /\ \/ host.op.name = "setElement" /\ host.op.idx >= dev.max
            \/ host.op.name = "getElement" /\ host.op.idx >= dev.size ) =>
           (~host.ok /\ host.got = <<>>)

C20_Witness ==
    /\ host.op.name = "setElement"
    /\ host.op.idx = 5
    /\ host.pc = "done"
    /\ ~host.ok
    /\ host.sent = <<77, 51, 4, 53, 4, 57, 4>>
    /\ dev.max = 2
    /\ dev.last.sub = SUBCMD_ARRAY_ELEMENT
    /\ dev.last.idx = 5
    /\ dev.last.out = <<49, 53, 4>>
    /\ s2h = <<>>

\* the terminated values an exchange reads when it succeeds: the reply, and
\* the value after it in a size query and in a get of an element
C25_ReadsOf(op, sub) ==
    IF sub = SUBCMD_ARRAY_SIZE \/ (sub = SUBCMD_ARRAY_ELEMENT /\ ~ArrIsSet(op))
    THEN 2 ELSE 1

RECURSIVE C25_Sum(_, _)
C25_Sum(per, k) == IF k = 0 THEN 0 ELSE per[k] + C25_Sum(per, k - 1)

C25_Failed == host.pc = "done" /\ ~host.ok

\* C25 as written: an operation that returned false has consumed at most
\* one terminated reply.
C25_AsWritten == C25_Failed => host.reads <= 1

\* C25: an operation that returned false has consumed, in every exchange
\* before the one that failed, the reply and the value that exchange reads,
\* and in the exchange that failed at most those; nothing else was consumed.
C25_Consumed ==
    C25_Failed =>
        /\ Len(host.per) <= Len(host.exch)
        /\ host.reads = C25_Sum(host.per, Len(host.per))
        /\ \A k \in 1..Len(host.per) :
             /\ host.per[k] <= C25_ReadsOf(host.op, host.exch[k].sub)
             /\ k < Len(host.per) =>
                    host.per[k] = C25_ReadsOf(host.op, host.exch[k].sub)

C25_Witness ==
    /\ C25_Failed
    /\ host.op.name = "dispatchGetArray"
    /\ host.op.cap = 1
    /\ host.per = <<1, 2>>
    /\ host.reads = 3
    /\ host.sent = <<79, 50, 4, 79, 49, 4>>
    /\ s2h = <<>>

GetArrayOps == {"dispatchGetArray", "getRemoteArrayH"}

\* C21: dispatchGetArray fails when the size the responder reported exceeds
\* the caller's maximum; it writes only elements of the caller's buffer with
\* an index below that maximum; when it returned true it wrote exactly the
\* elements 0 .. size-1, in increasing order of the index.
C21_GetArrayBounds ==
    host.op.name \in GetArrayOps =>
        /\ \A k \in 1..Len(host.got) :
             host.got[k].idx < host.cap /\ host.got[k].idx = k - 1
        /\ host.size > host.cap =>
               (host.pc = "done" /\ ~host.ok /\ host.got = <<>>)
        /\ (host.pc = "done" /\ host.ok) =>
               (Len(host.got) = host.size /\ host.size <= host.cap)

C21_Witness ==
    /\ host.op.name = "dispatchGetArray"
    /\ host.cap = 1
    /\ host.size = 2
    /\ host.pc = "done"
    /\ ~host.ok
    /\ host.got = <<>>
    /\ host.exch = <<ASent(SUBCMD_ARRAY_STARTING, 0), ASent(SUBCMD_ARRAY_SIZE, 0)>>
    /\ dev.last.out = <<52, 102, 4, 50, 4>>

LockInit ==
    /\ thr = [t \in Threads |-> ThreadIdle]
    /\ lock = LockFree
    /\ codec = CodecBlank
    /\ started = [host |-> FALSE, avr |-> FALSE]
    /\ h2s = <<>>
    /\ s2h = <<>>
    /\ host = HostIdle
    /\ dev = DevBlank([kind |-> "task", hook |-> "ok"])

LockNext == \E t \in Threads : Call(t) \/ Run(t)

\* every thread in a call keeps running
LockSpec ==
    LockInit /\ [][LockNext]_vars /\ \A t \in Threads : WF_vars(Run(t))

\* C4: no two exchanges interleave on the wire: at most one thread is
\* between the first and the last byte of an exchange.
C4_NoInterleaving == Cardinality({t \in Threads : thr[t].inx}) <= 1

C4_Witness ==
    /\ thr[1].call = "OnExecute"
    /\ thr[1].inx
    /\ lock.owner = 1
    /\ thr[2].call = "startRemoteSequence"
    /\ thr[2].inx

\* a thread that has returned from a guarded call holds the lock as many
\* times as before the call, and the lock counts the guards in scope
C5_Balanced ==
    /\ \A t \in Threads :
         (thr[t].returned /\ thr[t].call \in {c.name : c \in GuardedCalls}) =>
             thr[t].held = 0
    /\ lock.depth = IF lock.owner = 0 THEN 0 ELSE thr[lock.owner].held
    /\ \A t \in Threads : t # lock.owner => thr[t].held = 0

\* C5: the stream lock of a StreamGuard is released on every exit path of
\* OnExecute, getRemoteArrayH, putRemoteArrayH and createRemotePropH, so the
\* caller holds it as often as before the call, and a thread waiting for
\* the lock eventually acquires it.
C5_Released ==
    /\ []C5_Balanced
    /\ \A t \in Threads :
         (Instr(t) = "lock" /\ lock.owner \notin {0, t}) ~> (lock.owner = t)

C5_Witness ==
    /\ thr[1].call = "OnExecute"
    /\ thr[1].returned
    /\ thr[1].held = 0
    /\ thr[1].n = 1
    /\ thr[2].call = "getRemoteArrayH"
    /\ Instr(2) = "xchg"
    /\ thr[2].inx
    /\ lock.owner = 2

\* the entries of the exchanges of call n of thread t in a log
LoggedOf(log, t, n) == SelectSeq(log, LAMBDA e : e = LogEntry(t, n))

\* thread t returns from OnExecute in this step
C26_Returns(t) ==
    /\ thr[t].call = "OnExecute"
    /\ ~thr[t].returned
    /\ thr'[t].returned

\* C26: when a guarded property operation (OnExecute) completes, the log
\* getLastLog() returns holds the record of every exchange the operation
\* performed, the first query of the maximum array size of a sequence
\* upload included.
C26_LogComplete ==
    [][\A t \in Threads :
          C26_Returns(t) =>
              Len(LoggedOf(lock'.last, t, thr[t].n)) = thr'[t].nx]_vars

C26_Witness ==
    /\ thr[1].call = "OnExecute"
    /\ thr[1].returned
    /\ thr[1].n = 1
    /\ thr[1].nx = 2
    /\ thr[2].n = 0
    /\ lock.owner = 0
    /\ lock.last = <<LogEntry(1, 1)>>

\* the steps of tryStream, in order
C27_Order ==
    <<"configure", "wait", "startProtocol", "purge", "testProtocol",
      "endProtocol">>

\* the stream names that are empty, "undefined" or "unknown" in any case
C27_NoStream ==
    {<<>>,
     <<117, 110, 100, 101, 102, 105, 110, 101, 100>>,
     <<85, 110, 107, 110, 111, 119, 110>>,
     <<85, 78, 68, 69, 70, 73, 78, 69, 68>>}

\* C27: tryStream performs its steps in the order configure, wait,
\* startProtocol, purge, testProtocol, endProtocol; it returns Misconfigured
\* iff the stream name is empty, "undefined" or "unknown" in any case,
\* CanCommunicate iff testProtocol returned DEVICE_OK, CanNotCommunicate
\* otherwise; when it has called startProtocol, the session is no longer
\* started when it returns.
C27_TryStream ==
    host.pc = "returned" =>
        /\ IsPrefix(host.steps, C27_Order)
        /\ (host.result = "Misconfigured") = (host.stream \in C27_NoStream)
        /\ (host.result = "CanCommunicate") = (host.ret = "DEVICE_OK")
        /\ host.result \in {"Misconfigured", "CanCommunicate",
                             "CanNotCommunicate"}
        /\ InSeq("startProtocol", host.steps) => ~started.host

C27_Witness ==
    /\ host.pc = "returned"
    /\ host.stream = <<67, 79, 77, 51>>
    /\ host.steps = <<"configure", "wait", "startProtocol", "purge">>
    /\ host.threw
    /\ host.result = "CanNotCommunicate"
    /\ started.host

\* C28: on every path of tryStream that changed the answer timeout of the
\* port, the timeout recorded before the change is in place again when
\* tryStream returns.
C28_TimeoutRestored ==
    (host.pc = "returned" /\ host.changed) => host.timeout = host.before

C28_Witness ==
    /\ host.pc = "returned"
    /\ host.changed
    /\ host.threw
    /\ host.before = 2000
    /\ host.saved = 2000
    /\ host.timeout = SerialAnswerTimeout
    /\ host.steps = <<"configure", "wait", "startProtocol", "purge",
                      "testProtocol", "endProtocol">>

\* the terminated value that follows the command byte of the request
C30_AfterCommand == SubSeq(host.req, 2, 1 + TermPos(Tail(host.req)))

\* the request of the exchange is the command byte, then the channel as a
\* signed numeral with its terminator
C30_Prefixed ==
    /\ Len(host.req) >= 3
    /\ Head(host.req) = host.op.cmd
    /\ TermPos(Tail(host.req)) # 0
    /\ IF WIsNeg(host.op.chan)
       THEN /\ Head(C30_AfterCommand) = ASCII_MINUS
            /\ IsHexPayload(Tail(C30_AfterCommand), WNeg(host.op.chan))
       ELSE IsHexPayload(C30_AfterCommand, host.op.chan)

\* C30: in every exchange of every channel operation (task, set of one and
\* of two values, set-string, get of one and of two values, get-string,
\* set-array, get-array) on every signed 8-bit channel ch, the request the
\* initiator wrote is the command byte followed at once by ch as a
\* terminated signed value, and when the responder's handler invokes the
\* registered callback for a request that reached it whole, with nothing
\* unread before it, it passes the callback that channel ch.
C30_ChannelPassed ==
    /\ host.wok => C30_Prefixed
    /\ (host.wok /\ host.clean /\ dev.called) =>
           (dev.withChan /\ dev.chan = host.op.chan)

C30_Witness ==
    /\ host.op.name = "dispatchChannelGet2"
    /\ host.op.chan = FromInt(0 - 1)
    /\ host.req = <<77, 45, 49, 4>>
    /\ host.clean
    /\ host.ok
    /\ host.pc = "done"
    /\ dev.handled = 1
    /\ dev.called
    /\ ~dev.withChan

\* thread t is in tryStream, past its first statement and before its return
C34_Probing(t) ==
    /\ thr[t].call = "tryStream"
    /\ thr[t].prog # <<>>
    /\ Len(thr[t].prog) < Len(tryStream)

\* C34: from the first statement of tryStream (and of the purgeComPort it
\* calls) until it returns, the calling thread holds the stream lock, and no
\* other thread is inside an exchange on the session.
C34_LockHeld ==
    \A t \in Threads :
        C34_Probing(t) =>
            /\ lock.owner = t
            /\ \A u \in Threads \ {t} : ~thr[u].inx

C34_Witness ==
    /\ thr[1].call = "tryStream"
    /\ Instr(1) = "xchgAny"
    /\ thr[1].inx
    /\ thr[2].call = "OnExecute"
    /\ thr[2].inx
    /\ lock.owner = 2

C36_Commits(t) == Instr(t) = "commit" /\ thr'[t].prog # thr[t].prog

\* the log of the exchanges thread t made since its last lockStream
C36_Own(t) == [i \in 1..thr[t].lx |-> LogEntry(t, thr[t].n)]

\* C36: the log a thread commits when it unlocks is the log of its own
\* exchanges since it locked: every exchange it made is in it and no entry
\* of another thread is.
C36_LogOwned ==
    [][\A t \in Threads : C36_Commits(t) => lock'.last = C36_Own(t)]_vars

C36_Witness ==
    /\ thr[1].call = "OnExecute"
    /\ thr[1].returned
    /\ thr[1].n = 1
    /\ thr[1].nx = 1
    /\ thr[1].lx = 1
    /\ lock.last = <<>>
    /\ thr[2].call = "getRemoteArrayH"
    /\ thr[2].n = 1
    /\ thr[2].held = 1
    /\ thr[2].nx = 0
    /\ lock.owner = 2

\* C40: a StringStream is a first-in first-out queue of bytes: the values
\* read() returned for the bytes written since the last flush are those
\* bytes in the order written, each once; read() returns -1 only when no
\* unread byte remained; available() returns the number of unread bytes,
\* which is 0 after flush()
C40_Fifo ==
    /\ host.reads = SubSeq(host.written, 1, Len(host.reads))
    /\ (host.op = "read" /\ host.ret = 0 - 1) => host.unread = 0
    /\ host.op = "available" => host.ret = Len(host.written) - Len(host.reads)

\* a read() returned -1 for the byte 0xFF, which was unread, after the
\* buffer had been compacted
C40_Witness ==
    /\ host.op = "read"
    /\ host.ret = 0 - 1
    /\ host.unread = 1
    /\ host.written = <<65, 128, 255>>
    /\ host.reads = <<65, 0 - 128, 0 - 1>>
    /\ dev.buffer = <<255>>
    /\ dev.head = 1

\* the initiator of a get is about to read the reply, and a terminated
\* value has arrived
C32_ReplyArrived ==
    /\ host.pc = "run"
    /\ host.op.name = "dispatchGet"
    /\ CurStep = "checkReply"
    /\ host.st
    /\ TermPos(s2h) # 0

\* the read of the reply failed: dispatchGet has returned false, the output
\* variable is as it was, and what was taken from the link is the first
\* terminated value
C32_Refused ==
    (C32_ReplyArrived /\ host'.step = host.step + 1 /\ ~host'.ok) =>
        /\ host'.pc = "done"
        /\ host'.got = host.got
        /\ s2h = SubSeq(s2h, 1, TermPos(s2h)) \o s2h'

\* C32: when the reply to a get is PROT_ERROR or another value than the
\* command, dispatchGet returns false having read exactly one terminated
\* value, and the caller's output variable is unchanged
C32_GetRefused == [][C32_Refused]_vars

\* a dispatchGet has returned false after the one step that read the
\* PROT_ERROR reply of the handler, with nothing left on the link
C32_Witness ==
    /\ host.pc = "done"
    /\ host.op.name = "dispatchGet"
    /\ ~host.ok
    /\ Len(host.trace) = 2
    /\ host.trace[2].io
    /\ host.terms = 1
    /\ host.got = W(0, 0)
    /\ dev.handled
    /\ dev.last.out = reply(PROT_ERROR, TRUE, TRUE).out
    /\ s2h = <<>>

\* the responder ran a handler of the array on the request of the initiator
C33_Handled ==
    /\ host.pc = "sent"
    /\ host' = host
    /\ h2s # h2s'
    /\ Head(h2s) = host.cmd

\* the sub-command is none of those the handler under cmd knows
C33_Unknown(cmd, sub) ==
    \/ cmd = ArrSetCmd /\ sub \notin {SUBCMD_ARRAY_SIZE, SUBCMD_ARRAY_ELEMENT,
                                      SUBCMD_ARRAY_FINISHED}
    \/ cmd = ArrGetCmd /\ sub \notin {SUBCMD_ARRAY_SIZE, SUBCMD_ARRAY_STARTING,
                                      SUBCMD_ARRAY_ELEMENT}

C33_Rejected ==
    (C33_Handled /\ C33_Unknown(host.cmd, host.sub)) =>
        /\ dev'.last.cmd = host.cmd
        /\ dev'.last.sub = host.sub
        /\ ~dev'.last.ok
        /\ dev'.last.out = reply(PROT_ERROR, TRUE, TRUE).out
        /\ dev'.arr = dev.arr
        /\ dev'.size = dev.size
        /\ dev'.oob = dev.oob

\* C33: a set-array handler that receives SUBCMD_ARRAY_STARTING or a value
\* outside {1, 3, 4}, and a get-array handler that receives
\* SUBCMD_ARRAY_FINISHED or a value outside {1, 2, 3}, replies PROT_ERROR
\* and leaves the contents and the length of the array as they were
C33_UnknownSubCommand == [][C33_Rejected]_vars

\* the set handler has rejected SUBCMD_ARRAY_STARTING after an earlier
\* request stored the element 9 at index 1, which is still there
C33_Witness ==
    /\ dev.handled
    /\ dev.last.cmd = ArrSetCmd
    /\ dev.last.sub = SUBCMD_ARRAY_STARTING
    /\ host.sub = SUBCMD_ARRAY_STARTING
    /\ dev.last.replies = <<PROT_ERROR>>
    /\ dev.arr # ArrInitial
    /\ ArrGet(dev.arr, 1) = FromInt(9)
    /\ host.n = MaxSubOps

\* the cached value is the initial value or the value of the last remote
\* get or set that succeeded
C39_LastGood == host.created => host.cached = host.good

\* a call of OnExecute in which an exchange failed returned an error code
\* and assigned no other cached value
C39_FailedKept ==
    (host.act \in {"BeforeGet", "AfterSet"} /\ host.failed) =>
        /\ host.ret # "DEVICE_OK"
        /\ ~host.changed

\* C39: for every kind of remote property the cached value equals the
\* initial value or the value of the last successful remote get or set, and
\* when the exchange of OnExecute(BeforeGet) or OnExecute(AfterSet) fails,
\* OnExecute returns an error code and the cached value is unchanged
C39_Cached == C39_LastGood /\ C39_FailedKept

\* OnExecute(BeforeGet) of a RemoteArrayProp whose exchange failed
\* returned DEVICE_OK and emptied the cached string "1;2" that an earlier
\* get had fetched
C39_Witness ==
    /\ host.kind.class = "RemoteArrayProp"
    /\ host.act = "BeforeGet"
    /\ host.failed
    /\ host.ret = "DEVICE_OK"
    /\ host.changed
    /\ host.cached = <<>>
    /\ host.good = <<49, 59, 32, 50>>

\* an operation that returned has returned true
C31_Returned == host.pc = "done" => host.ok

\* the initiator reads only when a terminated value has arrived, and the
\* handler finds every argument it reads
C31_NoWait ==
    /\ (host.pc = "run" /\ host'.step = host.step + 1
        /\ CurStep \notin WriteSteps) => TermPos(s2h) # 0
    /\ (host' = host /\ h2s' # h2s /\ Head(h2s) \in Cmds) => dev'.last.ok

\* both ends are idle: the operation has returned and no command waits
C31_Idle ==
    /\ host.pc \in {"idle", "done"}
    /\ ~hasCommand(started.avr, h2s)

C31_Drained == C31_Idle => (h2s = <<>> /\ s2h = <<>>)

\* the operation has returned and a byte of it is still unread
C31_Left == host.pc = "done" => h2s = <<>>

\* C31: over a link that loses nothing, every exchange of an operation with
\* the handler that matches it and a callback that succeeds completes with
\* the initiator returning true, neither end waits for bytes the other
\* does not send, and when both are idle no unread byte remains in either
\* direction
C31_Matched ==
    /\ [](C31_Returned /\ C31_Drained /\ C31_Left)
    /\ [][C31_NoWait]_vars
    /\ (host.pc = "run" ~> host.pc = "done")

\* dispatchSet of the long -0x80000000 has returned true and the
\* terminator of the value is still unread by the responder
C31_Witness ==
    /\ host.pc = "done"
    /\ host.ok
    /\ host.op.name = "dispatchSet"
    /\ host.op.val = W(32768, 0)
    /\ dev.handler.kind = "set"
    /\ dev.last.ok
    /\ h2s = <<PROT_TERM_CHAR>>
    /\ s2h = <<>>

====
